---- MODULE Spec2Model ----
(***************************************************************************)
(* Bee Calc notebook calculator: BeeParser (the regex rewrite pipeline of  *)
(* parse, the expression parser it hands the text to, and evaluate) and    *)
(* BeeNotepad (append / clear), from src/beenotepad.py.                    *)
(*                                                                         *)
(* Text is a sequence of one-character strings.  Regular expressions are   *)
(* syntax trees matched by a backtracking matcher with Python's `re`       *)
(* priorities (leftmost start, greedy repetition, ordered alternation).    *)
(***************************************************************************)
EXTENDS Integers, Sequences, FiniteSets, TLC

VARIABLES input, output, vars, _vars, aliased, ret, document, all_output

vars_all == <<input, output, vars, _vars, aliased, ret, document, all_output>>

(***************************************************************************)
(* Character classes of Python's re over the alphabet of the model.        *)
(***************************************************************************)
Digit == {"0", "1", "2", "3", "4", "5", "6", "7", "8", "9"}

Letter == {"a", "b", "c", "d", "e", "f", "g", "h", "i", "j", "k", "l", "m",
           "n", "o", "p", "q", "r", "s", "t", "u", "v", "w", "x", "y", "z",
           "A", "B", "C", "D", "E", "F", "G", "H", "I", "J", "K", "L", "M",
           "N", "O", "P", "Q", "R", "S", "T", "U", "V", "W", "X", "Y", "Z"}

\* the letters outside a-zA-Z that the lines and the patterns name
Greek == {"π", "φ", "τ", "Ω", "μ"}

\* \w
Word == Letter \cup Greek \cup Digit \cup {"_"}

\* \s
Space == {" ", "\t"}

(***************************************************************************)
(* Regular expressions.  A pattern is the sequence of its atoms, so that   *)
(* concatenation is \o; an atom tests one character (set), is a zero-width *)
(* test (wb, eol, the lookarounds), opens or closes a capturing group, or  *)
(* holds sub-patterns (alt, star).                                         *)
(***************************************************************************)
Node(op, set, args, n) == [op |-> op, set |-> set, args |-> args, n |-> n]

Set(S) == <<Node("set", S, <<>>, 0)>>

RECURSIVE Cat(_)
Cat(rs) == IF rs = <<>> THEN <<>> ELSE Head(rs) \o Cat(Tail(rs))

Alt(rs) == <<Node("alt", {}, rs, 0)>>

\* r*; the star of one character class is a run of the class
Star(r) ==
    IF Len(r) = 1 /\ r[1].op = "set" THEN <<Node("run", r[1].set, <<>>, 0)>>
    ELSE <<Node("star", {}, r, 0)>>

Plus(r) == r \o Star(r)

Opt(r) == Alt(<<r, <<>>>>)

\* (?=r)  (?!r)
Ahead(r) == <<Node("la", {}, r, 0)>>

NotAhead(r) == <<Node("nla", {}, r, 0)>>

\* (?<=r)  (?<!r), r of fixed width n
Behind(r, n) == <<Node("lb", {}, r, n)>>

NotBehind(r, n) == <<Node("nlb", {}, r, n)>>

\* \b
WB == <<Node("wb", {}, <<>>, 0)>>

\* $
Eol == <<Node("eol", {}, <<>>, 0)>>

\* capturing group number n
Grp(n, r) == <<Node("open", {}, <<>>, n)>> \o r \o <<Node("close", {}, <<>>, n)>>

\* a literal string
Literal(cs) == Cat([j \in 1..Len(cs) |-> Set({cs[j]})])

\* the spans of the capturing groups; <<0, 0>> is a group that took no part
NoCaps == [g \in 1..4 |-> <<0, 0>>]

NoMatch == [ok |-> FALSE, start |-> 0, end |-> 0, c |-> NoCaps]

IsWordAt(s, j) == j >= 1 /\ j <= Len(s) /\ s[j] \in Word

\* the least element of a non-empty set of integers
Min(S) == CHOOSE x \in S : \A y \in S : x <= y

\* the number of characters of class S that text s holds from index i on
RunLen(s, i, S) ==
    CHOOSE n \in 0..(Len(s) + 1 - i) :
        /\ \A j \in i..(i + n - 1) : s[j] \in S
        /\ i + n > Len(s) \/ s[i + n] \notin S

\* backtracking: the first way if it matches, else the second
OrElse(first, second) == IF first.ok THEN first ELSE second

(***************************************************************************)
(* Match(k, s, i, c): the first way, in backtracking order, to match the   *)
(* atoms of k one after the other in text s from index i, c being the      *)
(* groups captured so far.  A run is greedy: it takes as many characters   *)
(* of its class as there are, and fewer when the rest does not match.      *)
(***************************************************************************)
RECURSIVE Match(_, _, _, _)

\* a greedy run: of the lengths after which the atoms of k match, the longest
Longest(k, s, i, c, lengths) ==
    IF lengths = {} THEN NoMatch
    ELSE Match(k, s, i + (CHOOSE n \in lengths : \A m \in lengths : m <= n), c)

Match(k, s, i, c) ==
    CASE k = <<>> -> [ok |-> TRUE, start |-> 0, end |-> i, c |-> c]
      [] k # <<>> /\ k[1].op = "set" /\ i <= Len(s) /\ s[i] \in k[1].set ->
            Match(Tail(k), s, i + 1, c)
      [] k # <<>> /\ k[1].op = "alt" /\ Len(k[1].args) > 1 ->
            OrElse(Match(Head(k[1].args) \o Tail(k), s, i, c),
                   Match(<<[k[1] EXCEPT !.args = Tail(@)]>> \o Tail(k), s, i, c))
      [] k # <<>> /\ k[1].op = "alt" /\ Len(k[1].args) = 1 ->
            Match(k[1].args[1] \o Tail(k), s, i, c)
      [] k # <<>> /\ k[1].op = "star" ->
            OrElse(Match(k[1].args \o k, s, i, c), Match(Tail(k), s, i, c))
      [] k # <<>> /\ k[1].op = "run" ->
            Longest(Tail(k), s, i, c,
                    {n \in 0..RunLen(s, i, k[1].set) : Match(Tail(k), s, i + n, c).ok})
      [] k # <<>> /\ k[1].op = "la" /\ Match(k[1].args, s, i, c).ok ->
            Match(Tail(k), s, i, c)
      [] k # <<>> /\ k[1].op = "nla" /\ ~Match(k[1].args, s, i, c).ok ->
            Match(Tail(k), s, i, c)
      [] k # <<>> /\ k[1].op = "lb" /\ i - k[1].n >= 1
           /\ Match(k[1].args, SubSeq(s, 1, i - 1), i - k[1].n, c).ok ->
            Match(Tail(k), s, i, c)
      [] k # <<>> /\ k[1].op = "nlb"
           /\ ~(i - k[1].n >= 1
                /\ Match(k[1].args, SubSeq(s, 1, i - 1), i - k[1].n, c).ok) ->
            Match(Tail(k), s, i, c)
      [] k # <<>> /\ k[1].op = "wb" /\ IsWordAt(s, i - 1) # IsWordAt(s, i) ->
            Match(Tail(k), s, i, c)
      [] k # <<>> /\ k[1].op = "eol" /\ i = Len(s) + 1 -> Match(Tail(k), s, i, c)
      [] k # <<>> /\ k[1].op = "open" ->
            Match(Tail(k), s, i, [c EXCEPT ![k[1].n] = <<i, 0>>])
      [] k # <<>> /\ k[1].op = "close" ->
            Match(Tail(k), s, i, [c EXCEPT ![k[1].n] = <<c[k[1].n][1], i>>])
      [] OTHER -> NoMatch

(***************************************************************************)
(* Search(r, s, from): re.search from index `from`: the match at the       *)
(* leftmost start at which r matches.                                      *)
(***************************************************************************)
Search(r, s, from) ==
    LET starts == {f \in from..(Len(s) + 1) : Match(r, s, f, NoCaps).ok}
    IN IF starts = {} THEN NoMatch
       ELSE [Match(r, s, Min(starts), NoCaps) EXCEPT !.start = Min(starts)]

\* match.group(g); <<>> for a group that took no part
Group(s, m, g) ==
    IF m.c[g][1] = 0 \/ m.c[g][2] = 0 THEN <<>>
    ELSE SubSeq(s, m.c[g][1], m.c[g][2] - 1)

\* s[:i-1] and s[i:] in 1-based indices
Before(s, i) == SubSeq(s, 1, i - 1)

From(s, i) == SubSeq(s, i, Len(s))

(***************************************************************************)
(* Values.  A number is m / 10^k (Python int: f = FALSE, k = 0; Python     *)
(* float: f = TRUE), a decimal model of the float with the nine digits a   *)
(* 32-bit integer holds.  A unit quantity is a magnitude and the names (as *)
(* text) of its unit factors.  A list is what evaluate returns for a       *)
(* Module with no statement, or more than one; the empty list is the Empty *)
(* result.                                                                 *)
(***************************************************************************)
Val(t, f, m, k, u, items) ==
    [t |-> t, f |-> f, m |-> m, k |-> k, u |-> u, items |-> items]

\* 10^k for the exponents of the model, k in 0..9
Pow10(k) == <<1, 10, 100, 1000, 10000, 100000, 1000000, 10000000, 100000000,
              1000000000>>[k + 1]

\* strip the trailing zeros of the fraction
RECURSIVE Norm(_, _, _)
Norm(f, m, k) ==
    IF k > 0 /\ m % 10 = 0 THEN Norm(f, m \div 10, k - 1)
    ELSE Val("num", f, m, k, <<>>, <<>>)

IntV(n) == Val("num", FALSE, n, 0, <<>>, <<>>)

FloatV(m, k) == Norm(TRUE, m, k)

UnitV(mag, u) == Val("unit", mag.f, mag.m, mag.k, u, <<>>)

ListV(items) == Val("list", FALSE, 0, 0, <<>>, items)

\* a str, items being its characters
StrV(text) == Val("str", FALSE, 0, 0, <<>>, text)

\* the magnitude of a unit quantity, as a number
Mag(v) == Val("num", v.f, v.m, v.k, <<>>, <<>>)

\* evaluate's [] for a blank line
Empty == ListV(<<>>)

\* bool(v): a number is true unless zero, a list unless empty, a Unit always
Truthy(v) ==
    CASE v.t = "num" -> v.m # 0
      [] v.t = "unit" -> TRUE
      [] v.t \in {"list", "str"} -> v.items # <<>>

\* the outcome of parse / evaluate: a value, or a raised exception; env is
\* parser.vars when the call ended
\* a faulty variant of evaluate: every value computed is bound to ans
Ok_BindsAns(v, env) ==
    [ok |-> TRUE, v |-> v, err |-> "",
     env |-> [n \in DOMAIN env \cup {"ans"} |-> IF n = "ans" THEN v ELSE env[n]]]

Ok(v, env) == [ok |-> TRUE, v |-> v, err |-> "", env |-> env]

Raise(err, env) == [ok |-> FALSE, v |-> Empty, err |-> err, env |-> env]

(***************************************************************************)
(* str(value): the text _replacer puts back into the line.                 *)
(***************************************************************************)
DigitChar == <<"0", "1", "2", "3", "4", "5", "6", "7", "8", "9">>

\* str(n) for an integer n >= 0 of at most nine digits
Digits(n) ==
    LET Of(d) == [j \in 1..d |-> DigitChar[((n \div Pow10(d - j)) % 10) + 1]]
    IN Of(CHOOSE d \in 1..9 : (d = 9 \/ n < Pow10(d)) /\ (d = 1 \/ n >= Pow10(d - 1)))

Zeros(n) == [j \in 1..n |-> "0"]

Abs(n) == IF n < 0 THEN -n ELSE n

Sign(n) == IF n < 0 THEN <<"-">> ELSE <<>>

\* float.__repr__: exponent notation below 1e-04 (the 1e+16 end is beyond
\* the nine digits of the model), else fixed notation with a fraction
FormatFloat(m, k) ==
    LET ds == Digits(Abs(m))
        exp10 == Len(ds) - 1 - k
    IN IF m = 0 THEN <<"0", ".", "0">>
       ELSE IF exp10 < -4
       THEN Sign(m) \o <<Head(ds)>>
            \o (IF Len(ds) > 1 THEN <<".">> \o Tail(ds) ELSE <<>>)
            \o <<"e", "-">>
            \o (IF -exp10 < 10 THEN <<"0">> ELSE <<>>) \o Digits(-exp10)
       ELSE IF k = 0 THEN Sign(m) \o ds \o <<".", "0">>
       ELSE LET padded == Zeros(k + 1 - Len(ds)) \o ds
                n == Len(padded)
            IN Sign(m) \o SubSeq(padded, 1, n - k) \o <<".">>
               \o SubSeq(padded, n - k + 1, n)

RECURSIVE JoinWith(_, _)
JoinWith(parts, sep) ==
    IF parts = <<>> THEN <<>>
    ELSE IF Len(parts) = 1 THEN parts[1]
    ELSE parts[1] \o sep \o JoinWith(Tail(parts), sep)

RECURSIVE Format(_)
Format(v) ==
    LET FormatNum == IF v.f THEN FormatFloat(v.m, v.k) ELSE Sign(v.m) \o Digits(Abs(v.m))
    IN CASE v.t = "num" -> FormatNum
         [] v.t = "unit" -> FormatNum \o <<" ">> \o JoinWith(v.u, <<"*">>)
         [] v.t = "str" -> v.items
         [] v.t = "list" ->
               <<"[">>
               \o JoinWith([j \in 1..Len(v.items) |-> Format(v.items[j])], <<",", " ">>)
               \o <<"]">>

(***************************************************************************)
(* The numeric operators of the operations table on plain numbers.         *)
(***************************************************************************)
\* a true division stops extending its quotient past this many digits
DivDigits == 7

NumAdd(a, b) ==
    LET Sum(kk) == Norm(a.f \/ b.f, a.m * Pow10(kk - a.k) + b.m * Pow10(kk - b.k), kk)
    IN Sum(IF a.k > b.k THEN a.k ELSE b.k)

NumSub(a, b) == NumAdd(a, Val("num", b.f, -b.m, b.k, <<>>, <<>>))

NumMul(a, b) == Norm(a.f \/ b.f, a.m * b.m, a.k + b.k)

\* long division: the quotient so far q and the remainder rem over den,
\* carried to the first exact digit and no further than the digit that takes
\* the quotient past DivDigits significant digits
RECURSIVE DivAt(_, _, _, _)
DivAt(q, rem, den, d) ==
    IF rem = 0 \/ q >= Pow10(DivDigits) THEN <<q, d>>
    ELSE DivAt(q * 10 + (rem * 10) \div den, (rem * 10) % den, den, d + 1)

\* operator.truediv for b # 0: always a float
NumDiv(a, b) ==
    LET q == DivAt(Abs(a.m) \div Abs(b.m), Abs(a.m) % Abs(b.m), Abs(b.m), 0)
        m == IF (a.m < 0) = (b.m < 0) THEN q[1] ELSE -q[1]
        k == a.k - b.k + q[2]
    IN IF k < 0 THEN Norm(TRUE, m * Pow10(-k), 0) ELSE Norm(TRUE, m, k)

RECURSIVE IntPow(_, _)
IntPow(b, e) == IF e = 0 THEN 1 ELSE b * IntPow(b, e - 1)

(***************************************************************************)
(* The patterns of BeeParser.                                              *)
(***************************************************************************)
D1 == Plus(Set(Digit))

num_re ==
    LET Exponent(signGroup) ==
            Opt(Cat(<<Set({"E", "e"}),
                      Opt(IF signGroup THEN Grp(3, Set({"+", "-"})) ELSE Set({"+", "-"})),
                      Opt(D1)>>))
    IN Alt(<<Grp(2, Cat(<<Set({"."}), WB, D1, Exponent(TRUE), WB>>)),
             Cat(<<WB, D1, Opt(Cat(<<Opt(Set({".", ","})), D1>>)), Exponent(FALSE)>>)>>)

unit_re ==
    LET UnitLetter == Letter \cup {"_", "Ω", "μ", "°"}
    IN Cat(<<NotBehind(Literal(<<"U", "n", "i", "t", "(", "'">>), 6),
             NotBehind(Set(Letter), 1),
             Opt(Grp(1, num_re)),
             Star(Set(Space)),
             Grp(4, Cat(<<Plus(Set(UnitLetter)),
                          NotAhead(Set({"("})),
                          Star(Cat(<<Opt(Alt(<<Set({"^"}), Literal(<<"*", "*">>)>>)),
                                     D1>>))>>)),
             Alt(<<WB, Eol, Ahead(Set({")"}))>>),
             NotAhead(Cat(<<Star(Set(Space)), Set({"="})>>))>>)

\* a faulty variant of percent_re: the lookahead left out
percent_re_Every == Set({"%"})

percent_re == Cat(<<Set({"%"}), NotAhead(Cat(<<Star(Set(Space)), Set(Digit)>>))>>)

money_re == Cat(<<Set({"$"}), Grp(1, Plus(Set(Digit \cup {"."}))), WB>>)

money_to_re == Cat(<<Literal(<<" ", "t", "o">>), Plus(Set(Space)), Set({"$"})>>)

to_re == Cat(<<Plus(Set(Space)), Literal(<<"t", "o">>), Plus(Set(Space))>>)

of_re == Cat(<<Set({"%"}), Plus(Set(Space)), Literal(<<"o", "f">>), Plus(Set(Space))>>)

factorial_re == Cat(<<Grp(1, D1), Star(Set(Space)), Set({"!"})>>)

names_re ==
    Cat(<<NotBehind(Cat(<<Set(Word \cup {".", "@", ")"}), Set({" "})>>), 2),
          WB,
          Grp(1, Cat(<<Set(Letter), Star(Set(Word))>>)),
          WB,
          NotAhead(Alt(<<Set({"="}), Literal(<<" ", "=">>)>>))>>)

extra_spaces_re == Cat(<<Set(Space), Plus(Set(Space))>>)

eliminate_spaces_re ==
    LET ArithChar == {"+", "-", "*", "/", "^"}
    IN Alt(<<Cat(<<Set({" "}), Ahead(Set({")"}))>>),
             Cat(<<Behind(Set({"("}), 1), Set({" "})>>),
             Cat(<<Set({" "}), Ahead(Set(ArithChar))>>),
             Cat(<<Behind(Set(ArithChar), 1), Set({" "})>>)>>)

double_in_re ==
    Cat(<<Literal(<<" ", "i", "n", " ", "i", "n">>), Plus(Set(Space)), NotAhead(Eol)>>)

(***************************************************************************)
(* str and re helpers used by parse.                                       *)
(***************************************************************************)
\* str.strip()
Strip(s) ==
    LET Kept(js) ==
            IF js = {} THEN <<>>
            ELSE SubSeq(s, Min(js), CHOOSE x \in js : \A y \in js : x >= y)
    IN Kept({j \in 1..Len(s) : s[j] \notin Space})

\* a faulty variant of str.replace: nothing replaced
Replace_Nothing(s, old, new) == s

\* str.replace(old, new), old not empty: the occurrences from left to right
RECURSIVE Replace(_, _, _)
Replace(s, old, new) ==
    LET At(js) ==
            IF js = {} THEN s
            ELSE SubSeq(s, 1, Min(js) - 1) \o new
                 \o Replace(SubSeq(s, Min(js) + Len(old), Len(s)), old, new)
    IN At({j \in 1..(Len(s) - Len(old) + 1) : SubSeq(s, j, j + Len(old) - 1) = old})

\* str.find(ch), as a 1-based index; 0 when absent
FindFrom(s, ch, i) ==
    LET At(js) == IF js = {} THEN 0 ELSE Min(js)
    IN At({j \in i..Len(s) : s[j] = ch})

\* pattern.sub(repl, s) for a fixed replacement, scanning from pos
RECURSIVE SubFrom(_, _, _, _)
SubFrom(r, s, pos, repl) ==
    LET At(m) ==
            IF ~m.ok THEN From(s, pos)
            ELSE SubSeq(s, pos, m.start - 1) \o repl \o SubFrom(r, s, m.end, repl)
    IN At(Search(r, s, pos))

Sub(r, s, repl) == SubFrom(r, s, 1, repl)

\* len(pattern.findall(s)), scanning from pos, for a pattern that matches
\* no empty text
RECURSIVE FindAllFrom(_, _, _)
FindAllFrom(r, s, pos) ==
    LET At(m) == IF ~m.ok THEN 0 ELSE 1 + FindAllFrom(r, s, m.end)
    IN At(Search(r, s, pos))

\* str.translate(from_specials), for the special characters of the model's
\* alphabet
FromSpecial(ch) ==
    CASE ch \in {"·", "×"} -> "*"
      [] ch = "¹" -> "1"
      [] ch = "²" -> "2"
      [] ch = "³" -> "3"
      [] OTHER -> ch

Translate(s) == [j \in 1..Len(s) |-> FromSpecial(s[j])]

(***************************************************************************)
(* BeeParser.__init__: the constant table.                                 *)
(***************************************************************************)
constants ==
    [n \in {"e", "pi", "π", "φ", "phi", "tau", "τ"} |->
        CASE n = "e" -> FloatV(271828183, 8)
          [] n \in {"pi", "π"} -> FloatV(314159265, 8)
          [] n \in {"φ", "phi"} -> FloatV(161803399, 8)
          [] n \in {"tau", "τ"} -> FloatV(628318531, 8)]

RECURSIVE Join(_)
Join(cs) == IF cs = <<>> THEN "" ELSE Head(cs) \o Join(Tail(cs))

\* dict.get(name): the value, or None (absent), for a name given as text
Has(d, name) == Join(name) \in DOMAIN d

Get(d, name) == d[Join(name)]

\* dict.get(name), None being modelled by the Empty value (both are false)
Lookup(d, id) == IF Has(d, id) THEN Get(d, id) ELSE Empty

\* a or b
Or(a, b) == IF Truthy(a) THEN a ELSE b

\* lines 157-159: `if repl:` and the text returned
Replacement(name, repl) ==
    IF Truthy(repl) THEN <<"(">> \o Format(repl) \o <<")">> ELSE name

\* a faulty variant of line 155: self.vars is asked before self.constants
_replacer_VarsFirst(name, env) ==
    Replacement(name, Or(Lookup(env, Strip(name)), Lookup(constants, Strip(name))))

\* BeeParser._replacer
_replacer(name, env) ==
    Replacement(name, Or(Lookup(constants, Strip(name)), Lookup(env, Strip(name))))

\* names_re.sub(self._replacer, text)
RECURSIVE NamesSubFrom(_, _, _)
NamesSubFrom(s, pos, env) ==
    LET At(m) ==
            IF ~m.ok THEN From(s, pos)
            ELSE SubSeq(s, pos, m.start - 1)
                 \o _replacer(Group(s, m, 1), env)
                 \o NamesSubFrom(s, m.end, env)
    IN At(Search(names_re, s, pos))

(***************************************************************************)
(* BeeParser.parse, the rewrites of lines 180 to 252 in order.             *)
(***************************************************************************)
\* a faulty variant of lines 186-187: the comment is not cut off
StripComment_Kept(text) == text

\* a faulty variant of lines 186-187: the `#` cut out, the comment left in
StripComment_HashOnly(text) ==
    LET Cut(hash) == IF hash > 0 THEN Before(text, hash) \o From(text, hash + 1) ELSE text
    IN Cut(FindFrom(text, "#", 1))

\* lines 186-187: the text before the first `#`
StripComment(text) ==
    LET Cut(hash) == IF hash > 0 THEN Before(text, hash) ELSE text
    IN Cut(FindFrom(text, "#", 1))

\* a faulty variant of lines 193-195: the division by 100 left out
PercentOf_NoHundred(text) ==
    LET Of(m) ==
            IF m.ok
            THEN <<"(", "(">> \o Before(text, m.start)
                 \o <<")", ")", "*">> \o From(text, m.end)
            ELSE text
    IN Of(Search(of_re, text, 1))

\* lines 193-195
PercentOf(text) ==
    LET Of(m) ==
            IF m.ok
            THEN <<"(", "(">> \o Before(text, m.start)
                 \o <<")", "/", "1", "0", "0", ")", "*">> \o From(text, m.end)
            ELSE text
    IN Of(Search(of_re, text, 1))

\* a faulty variant of lines 199-200: an `if` in the place of the `while`
Factorials_Once(text) ==
    LET At(m) ==
            IF ~m.ok THEN text
            ELSE Before(text, m.start)
                 \o <<"f", "a", "c", "t", "o", "r", "i", "a", "l", "(">>
                 \o Group(text, m, 1) \o <<")">> \o From(text, m.end)
    IN At(Search(factorial_re, text, 1))

\* a faulty variant of line 240: a placeholder with a letter in it
Placeholder_Letter(idx) == <<"(", "x", "(">>

\* f'@@{unit_idx}@@'
Placeholder(idx) == <<"@", "@">> \o Digits(idx) \o <<"@", "@">>

\* the pattern of the while loop that is rewrite n
LoopPattern(n) ==
    CASE n = 9 -> factorial_re
      [] n = 11 -> money_re
      [] n = 12 -> money_to_re
      [] n = 15 -> unit_re

\* one turn of the while loop that is rewrite n, m being the match found
\* and idx the value of unit_idx: lines 200, 209, 212 and 243
Iteration(n, text, m, idx) ==
    Before(text, m.start)
    \o (CASE n = 9 -> <<"f", "a", "c", "t", "o", "r", "i", "a", "l", "(">>
                      \o Group(text, m, 1) \o <<")">>
          [] n = 11 -> Group(text, m, 1) \o <<" ", "U", "S", "D">>
          [] n = 12 -> <<" ", "t", "o", " ", "U", "S", "D">>
          [] n = 15 -> Placeholder(idx))
    \o From(text, m.end)

\* the texts a while loop goes through, from the text it starts with to
\* the text in which the pattern is not found
RECURSIVE Iterations(_, _, _)
Iterations(n, text, idx) ==
    LET At(m) ==
            IF ~m.ok THEN <<text>>
            ELSE <<text>> \o Iterations(n, Iteration(n, text, m, idx), idx + 1)
    IN At(Search(LoopPattern(n), text, 1))

\* lines 199-200
RECURSIVE Factorials(_)
Factorials(text) ==
    LET At(m) == IF ~m.ok THEN text ELSE Factorials(Iteration(9, text, m, 1))
    IN At(Search(factorial_re, text, 1))

\* lines 208-209
RECURSIVE Money(_)
Money(text) ==
    LET At(m) == IF ~m.ok THEN text ELSE Money(Iteration(11, text, m, 1))
    IN At(Search(money_re, text, 1))

\* lines 211-212
RECURSIVE MoneyTo(_)
MoneyTo(text) ==
    LET At(m) == IF ~m.ok THEN text ELSE MoneyTo(Iteration(12, text, m, 1))
    IN At(Search(money_to_re, text, 1))

\* lines 231-240: the constructor call that replaces one unit literal
UnitReplacement(text, m) ==
    LET \* float(numstr) in complex(0, ...): the text of the number with a fraction
        FloatText(numstr) ==
            IF FindFrom(numstr, ".", 1) > 0 \/ FindFrom(numstr, "e", 1) > 0 THEN numstr
            ELSE numstr \o <<".", "0">>
        Constructor(numstr, unitstr) ==
            IF unitstr \in {<<"i">>, <<"j">>}
            THEN <<"c", "o", "m", "p", "l", "e", "x", "(", "0", ",">>
                 \o FloatText(numstr) \o <<")">>
            ELSE <<"U", "n", "i", "t", "(", "'">> \o numstr \o <<" ">> \o unitstr
                 \o <<"'", ")">>
    IN Constructor(IF Group(text, m, 1) = <<>> THEN <<"1">> ELSE Group(text, m, 1),
                   Group(text, m, 4))

\* lines 245-246
RECURSIVE PutBack(_, _, _)
PutBack(text, reps, j) ==
    IF j > Len(reps) THEN text
    ELSE PutBack(Replace(text, Placeholder(j), reps[j]), reps, j + 1)

\* lines 229-246: the scan, reps being the replacements made so far, and
\* then the placeholders replaced
RECURSIVE UnitScan(_, _)
UnitScan(text, reps) ==
    LET At(m) ==
            IF m.ok
            THEN UnitScan(Iteration(15, text, m, Len(reps) + 1),
                          Append(reps, UnitReplacement(text, m)))
            ELSE PutBack(text, reps, 1)
    IN At(Search(unit_re, text, 1))

\* lines 180-252: the n-th rewrite of the text
Rewrite(n, text, env) ==
    CASE n = 1 -> Replace(Strip(text), <<"^">>, <<"*", "*">>)
      [] n = 2 -> Sub(extra_spaces_re, text, <<" ">>)
      [] n = 3 -> Sub(eliminate_spaces_re, text, <<>>)
      [] n = 4 -> StripComment(text)
      [] n = 5 -> Replace(text, <<"@">>, <<"a", "n", "s">>)
      [] n = 6 -> Sub(double_in_re, text, <<" ", "i", "n", " ", "t", "o", " ">>)
      [] n = 7 -> PercentOf(text)
      [] n = 8 -> Sub(percent_re, text, <<"p", "c", "t">>)
      [] n = 9 -> Factorials(text)
      [] n = 10 -> NamesSubFrom(text, 1, env)
      [] n = 11 -> Money(text)
      [] n = 12 -> MoneyTo(text)
      [] n = 13 -> Sub(to_re, text, <<" ", "@", "@", "@", " ">>)
      [] n = 14 -> Translate(text)
      [] n = 15 -> UnitScan(text, <<>>)
      [] n = 16 -> Replace(text, <<"@", "@", "@">>, <<"i", "n", " ">>)
      [] n = 17 -> Replace(text, <<")", "U", "n", "i", "t", "(", "'">>,
                           <<")", "*", "U", "n", "i", "t", "(", "'">>)

\* lines 180-252: the rewrites first..last of the text one after the
\* other: the first half of them, then the second half on what the first
\* half made.  An empty text is left as it is by each of them.
RECURSIVE Rewrites(_, _, _, _)
Rewrites(first, last, text, env) ==
    IF text = <<>> THEN text
    ELSE IF first = last THEN Rewrite(first, text, env)
    ELSE Rewrites((first + last) \div 2 + 1, last,
                  Rewrites(first, (first + last) \div 2, text, env), env)

(***************************************************************************)
(* ast.parse: the tokens and the grammar of the Python expression          *)
(* statements that the rewritten text can hold.  Modelled: number, name    *)
(* and string atoms, parentheses, calls, unary + - ~, the binary           *)
(* operators ** * / // % @ + - << >> & ^ |, comparison chains (`in`          *)
(* among them), list displays, assignment to names, and `;` between        *)
(* statements.                                                             *)
(***************************************************************************)
py_number_re ==
    Cat(<<Alt(<<Cat(<<D1, Opt(Cat(<<Set({"."}), Star(Set(Digit))>>))>>),
                Cat(<<Set({"."}), D1>>)>>),
          Opt(Cat(<<Set({"E", "e"}), Opt(Set({"+", "-"})), D1>>))>>)

RECURSIVE Tokenize(_, _)
Tokenize(s, i) ==
    LET Tok(k, text) == [k |-> k, s |-> text]
        py_name_re == Cat(<<Set(Letter \cup Greek \cup {"_"}), Star(Set(Word))>>)
        TwoCharOps == {<<"*", "*">>, <<"/", "/">>, <<"=", "=">>, <<"!", "=">>,
                       <<"<", "=">>, <<">", "=">>, <<"<", "<">>, <<">", ">">>}
        OneCharOps == {"+", "-", "*", "/", "%", "@", "(", ")", ",", ";", "=", "<", ">",
                       "&", "|", "^", "~", "[", "]"}
        \* a decimal integer literal with a leading zero that is not all zeros
        LeadingZero(text) ==
            /\ Len(text) > 1
            /\ text[1] = "0"
            /\ \A j \in 1..Len(text) : text[j] \in Digit
            /\ \E j \in 1..Len(text) : text[j] # "0"
        \* a number literal from i to end - 1 that a letter follows, or that
        \* has a leading zero
        BadNumber(end) ==
            \/ end <= Len(s) /\ s[end] \in Letter \cup Greek \cup {"_"}
            \/ LeadingZero(SubSeq(s, i, end - 1))
        Number(end) ==
            IF BadNumber(end) THEN <<Tok("err", SubSeq(s, i, end - 1))>>
            ELSE <<Tok("num", SubSeq(s, i, end - 1))>> \o Tokenize(s, end)
        Identifier(end) ==
            <<Tok(IF SubSeq(s, i, end - 1) = <<"i", "n">> THEN "op" ELSE "name",
                  SubSeq(s, i, end - 1))>>
            \o Tokenize(s, end)
        String(close) ==
            IF close = 0 THEN <<Tok("err", <<"'">>)>>
            ELSE <<Tok("str", SubSeq(s, i + 1, close - 1))>> \o Tokenize(s, close + 1)
        TwoChars == i < Len(s) /\ SubSeq(s, i, i + 1) \in TwoCharOps
    IN CASE i > Len(s) -> <<>>
         [] i <= Len(s) /\ s[i] \in Space -> Tokenize(s, i + 1)
         [] i <= Len(s) /\ s[i] \in Digit -> Number(Match(py_number_re, s, i, NoCaps).end)
         [] i < Len(s) /\ s[i] = "." /\ s[i + 1] \in Digit ->
                Number(Match(py_number_re, s, i, NoCaps).end)
         [] i <= Len(s) /\ s[i] \in Letter \cup Greek \cup {"_"} ->
                Identifier(Match(py_name_re, s, i, NoCaps).end)
         [] i <= Len(s) /\ s[i] = "'" -> String(FindFrom(s, "'", i + 1))
         [] TwoChars -> <<Tok("op", SubSeq(s, i, i + 1))>> \o Tokenize(s, i + 2)
         [] i <= Len(s) /\ s[i] \in OneCharOps /\ ~TwoChars ->
                <<Tok("op", <<s[i]>>)>> \o Tokenize(s, i + 1)
         [] OTHER -> <<Tok("err", <<s[i]>>)>>

\* the value of a number token
RECURSIVE DigitsValue(_)
DigitsValue(ds) ==
    IF ds = <<>> THEN 0
    ELSE 10 * DigitsValue(SubSeq(ds, 1, Len(ds) - 1))
         + (CHOOSE d \in 0..9 : DigitChar[d + 1] = ds[Len(ds)])

\* the value of a number token: the digits of the mantissa as an integer m
\* with a fraction of k digits, times 10 to the signed exponent e
NumberValue(text) ==
    LET Mantissa(mant, dot) ==
            IF dot = 0 THEN [m |-> DigitsValue(mant), k |-> 0]
            ELSE [m |-> DigitsValue(Before(mant, dot) \o From(mant, dot + 1)),
                  k |-> Len(mant) - dot]
        ExponentValue(etext) ==
            IF etext = <<>> THEN 0
            ELSE IF etext[1] = "-" THEN -DigitsValue(Tail(etext))
            ELSE IF etext[1] = "+" THEN DigitsValue(Tail(etext))
            ELSE DigitsValue(etext)
        Scaled(mant, e) ==
            IF e >= mant.k THEN FloatV(mant.m * Pow10(e - mant.k), 0)
            ELSE FloatV(mant.m, mant.k - e)
        At(epos, dot) ==
            IF dot = 0 /\ epos = 0 THEN IntV(DigitsValue(text))
            ELSE IF epos = 0 THEN Scaled(Mantissa(text, dot), 0)
            ELSE Scaled(Mantissa(Before(text, epos), dot),
                        ExponentValue(From(text, epos + 1)))
    IN At(IF FindFrom(text, "e", 1) > 0 THEN FindFrom(text, "e", 1)
          ELSE FindFrom(text, "E", 1),
          FindFrom(text, ".", 1))

Ast(k, op, id, v, kids, ops) ==
    [k |-> k, op |-> op, id |-> id, v |-> v, kids |-> kids, ops |-> ops]

Constant(v) == Ast("Constant", "", <<>>, v, <<>>, <<>>)

StrConst(text) == Ast("Str", "", text, IntV(0), <<>>, <<>>)

Name(id) == Ast("Name", "", id, IntV(0), <<>>, <<>>)

BinOp(op, l, r) == Ast("BinOp", op, <<>>, IntV(0), <<l, r>>, <<>>)

UnaryOp(op, x) == Ast("UnaryOp", op, <<>>, IntV(0), <<x>>, <<>>)

\* kids: the left operand and then the comparators
Compare(ops, kids) == Ast("Compare", "", <<>>, IntV(0), kids, ops)

\* kids: func and then the arguments
Call(func, args) == Ast("Call", "", <<>>, IntV(0), <<func>> \o args, <<>>)

\* kids: the targets and then the value
Assign(targets, value) == Ast("Assign", "", <<>>, IntV(0), Append(targets, value), <<>>)

Expr(value) == Ast("Expr", "", <<>>, IntV(0), <<value>>, <<>>)

List(elts) == Ast("List", "", <<>>, IntV(0), elts, <<>>)

Module(body) == Ast("Module", "", <<>>, IntV(0), body, <<>>)

\* a parse step: the node and the index of the next token, or a SyntaxError
Parsed(node, pos) == [ok |-> TRUE, node |-> node, pos |-> pos]

SyntaxError == [ok |-> FALSE, node |-> Module(<<>>), pos |-> 0]

IsOp(toks, pos, ops) ==
    pos <= Len(toks) /\ toks[pos].k = "op" /\ Join(toks[pos].s) \in ops

\* the binary operators by precedence level, loosest first
AstOp(sym) ==
    CASE sym = "+" -> "Add" [] sym = "-" -> "Sub" [] sym = "*" -> "Mult"
      [] sym = "/" -> "Div" [] sym = "//" -> "FloorDiv" [] sym = "%" -> "Mod"
      [] sym = "@" -> "MatMult" [] sym = "**" -> "Pow" [] sym = "<<" -> "LShift"
      [] sym = ">>" -> "RShift" [] sym = "|" -> "BitOr" [] sym = "&" -> "BitAnd"
      [] sym = "in" -> "In" [] sym = "==" -> "Eq" [] sym = "!=" -> "NotEq"
      [] sym = "<" -> "Lt" [] sym = "<=" -> "LtE" [] sym = ">" -> "Gt"
      [] sym = ">=" -> "GtE" [] sym = "~" -> "Invert" [] sym = "^" -> "BitXor"

CompareOps == {"in", "==", "!=", "<", "<=", ">", ">="}

LevelOps == <<{"|"}, {"^"}, {"&"}, {"<<", ">>"}, {"+", "-"}, {"*", "/", "//", "%", "@"}>>

RECURSIVE ParseBinary(_, _, _), Climb(_, _, _, _), ParseCompareRest(_, _, _, _),
          ParseFactor(_, _), ParseTrailers(_, _, _), ParseArgs(_, _, _, _),
          ParseAtom(_, _)

\* an expression of the binary operators of the levels from min on: a
\* factor, then operators and right operands; from level 0 on, an
\* expression that may be a comparison chain
ParseBinary(min, toks, pos) ==
    LET Left(l) == IF l.ok THEN Climb(min, l.node, toks, l.pos) ELSE SyntaxError
    IN Left(ParseFactor(toks, pos))

\* left being parsed up to pos: the operators of the levels from min on
\* that follow, each with a right operand of the tighter levels
Climb(min, left, toks, pos) ==
    LET Right(r) ==
            IF r.ok
            THEN Climb(min, BinOp(AstOp(Join(toks[pos].s)), left, r.node), toks, r.pos)
            ELSE SyntaxError
    IN CASE IsOp(toks, pos, UNION {LevelOps[l] : l \in {m \in DOMAIN LevelOps : m >= min}}) ->
                Right(ParseBinary(1 + (CHOOSE l \in DOMAIN LevelOps :
                                           Join(toks[pos].s) \in LevelOps[l]),
                                  toks, pos + 1))
         [] min = 0 /\ IsOp(toks, pos, CompareOps) ->
                ParseCompareRest(<<>>, <<left>>, toks, pos)
         [] OTHER -> Parsed(left, pos)

\* a comparison chain: after the left operand, operators and comparators
ParseCompareRest(ops, kids, toks, pos) ==
    LET Comparator(r) ==
            IF r.ok
            THEN ParseCompareRest(Append(ops, AstOp(Join(toks[pos].s))),
                                  Append(kids, r.node), toks, r.pos)
            ELSE SyntaxError
    IN IF IsOp(toks, pos, CompareOps)
       THEN Comparator(ParseBinary(1, toks, pos + 1))
       ELSE Parsed(Compare(ops, kids), pos)

\* unary operators; a primary, then `**` and a factor
ParseFactor(toks, pos) ==
    LET Unary(sym, x) ==
            IF x.ok
            THEN Parsed(UnaryOp(IF sym = "+" THEN "UAdd"
                                ELSE IF sym = "-" THEN "USub" ELSE "Invert",
                                x.node), x.pos)
            ELSE SyntaxError
        Raised_(base, e) ==
            IF e.ok THEN Parsed(BinOp("Pow", base, e.node), e.pos) ELSE SyntaxError
        Power(b) ==
            IF b.ok /\ IsOp(toks, b.pos, {"**"})
            THEN Raised_(b.node, ParseFactor(toks, b.pos + 1))
            ELSE b
    IN IF IsOp(toks, pos, {"+", "-", "~"})
       THEN Unary(Join(toks[pos].s), ParseFactor(toks, pos + 1))
       ELSE Power(ParseAtom(toks, pos))

\* the calls that follow a primary
ParseTrailers(func, toks, pos) ==
    LET Trailer(args) ==
            IF args.ok THEN ParseTrailers(Call(func, args.node.kids), toks, args.pos)
            ELSE SyntaxError
    IN CASE IsOp(toks, pos, {"("}) /\ IsOp(toks, pos + 1, {")"}) ->
                ParseTrailers(Call(func, <<>>), toks, pos + 2)
         [] IsOp(toks, pos, {"("}) /\ ~IsOp(toks, pos + 1, {")"}) ->
                Trailer(ParseArgs(<<>>, toks, pos + 1, ")"))
         [] OTHER -> Parsed(func, pos)

\* the arguments of a call up to its `)`, or the elements of a list display
\* up to its `]`; the node returned holds them as kids
ParseArgs(args, toks, pos, close) ==
    LET Argument(a) ==
            CASE a.ok /\ IsOp(toks, a.pos, {close}) ->
                    Parsed(List(Append(args, a.node)), a.pos + 1)
              [] a.ok /\ IsOp(toks, a.pos, {","}) /\ IsOp(toks, a.pos + 1, {close}) ->
                    Parsed(List(Append(args, a.node)), a.pos + 2)
              [] a.ok /\ IsOp(toks, a.pos, {","}) /\ ~IsOp(toks, a.pos + 1, {close}) ->
                    ParseArgs(Append(args, a.node), toks, a.pos + 1, close)
              [] OTHER -> SyntaxError
    IN Argument(ParseBinary(0, toks, pos))

\* an atom with the calls that follow it
ParseAtom(toks, pos) ==
    LET Parenthesized(x) ==
            IF x.ok /\ IsOp(toks, x.pos, {")"})
            THEN ParseTrailers(x.node, toks, x.pos + 1)
            ELSE SyntaxError
        Display(x) ==
            IF x.ok THEN ParseTrailers(x.node, toks, x.pos) ELSE SyntaxError
    IN CASE pos <= Len(toks) /\ toks[pos].k = "num" ->
                ParseTrailers(Constant(NumberValue(toks[pos].s)), toks, pos + 1)
         [] pos <= Len(toks) /\ toks[pos].k = "name" ->
                ParseTrailers(Name(toks[pos].s), toks, pos + 1)
         [] pos <= Len(toks) /\ toks[pos].k = "str" ->
                ParseTrailers(StrConst(toks[pos].s), toks, pos + 1)
         [] IsOp(toks, pos, {"("}) -> Parenthesized(ParseBinary(0, toks, pos + 1))
         [] IsOp(toks, pos, {"["}) /\ IsOp(toks, pos + 1, {"]"}) ->
                ParseTrailers(List(<<>>), toks, pos + 2)
         [] IsOp(toks, pos, {"["}) /\ ~IsOp(toks, pos + 1, {"]"}) ->
                Display(ParseArgs(<<>>, toks, pos + 1, "]"))
         [] OTHER -> SyntaxError

\* one simple statement: the targets of an assignment, then the value
RECURSIVE ParseStatement(_, _, _)
ParseStatement(targets, toks, pos) ==
    LET Statement(x) ==
            CASE x.ok /\ IsOp(toks, x.pos, {"="}) /\ x.node.k = "Name" ->
                    ParseStatement(Append(targets, x.node), toks, x.pos + 1)
              [] x.ok /\ ~IsOp(toks, x.pos, {"="}) ->
                    Parsed(IF targets = <<>> THEN Expr(x.node)
                           ELSE Assign(targets, x.node),
                           x.pos)
              [] OTHER -> SyntaxError
    IN Statement(ParseBinary(0, toks, pos))

\* the statements of a line, `;` between them
RECURSIVE ParseBody(_, _, _)
ParseBody(body, toks, pos) ==
    LET Body(st) ==
            CASE st.ok /\ st.pos > Len(toks) ->
                    Parsed(Module(Append(body, st.node)), st.pos)
              [] st.ok /\ IsOp(toks, st.pos, {";"}) /\ st.pos = Len(toks) ->
                    Parsed(Module(Append(body, st.node)), st.pos + 1)
              [] st.ok /\ IsOp(toks, st.pos, {";"}) /\ st.pos < Len(toks) ->
                    ParseBody(Append(body, st.node), toks, st.pos + 1)
              [] OTHER -> SyntaxError
    IN Body(ParseStatement(<<>>, toks, pos))

\* ast.parse(text)
ast_parse(text) ==
    LET Tokens(toks) ==
            IF toks = <<>> THEN Parsed(Module(<<>>), 1)
            ELSE IF toks[Len(toks)].k = "err" THEN SyntaxError
            ELSE ParseBody(<<>>, toks, 1)
    IN IF text = <<>> THEN Parsed(Module(<<>>), 1) ELSE Tokens(Tokenize(text, 1))

(***************************************************************************)
(* The unit collaborator (the unitclass library), by the interface the     *)
(* parser uses: construct from text, convert, multiply, add.  A unit is a  *)
(* product of named factors; each name has a dimension and a factor to     *)
(* the base unit of its dimension.                                         *)
(***************************************************************************)
\* name |-> the dimension, and the factor to the base unit of the dimension
\* (grams per unit of mass, millimetres per unit of length)
UnitTable ==
    [lb    |-> [dim |-> "mass", factor |-> FloatV(45359237, 5)],
     grams |-> [dim |-> "mass", factor |-> IntV(1)],
     g     |-> [dim |-> "mass", factor |-> IntV(1)],
     kg    |-> [dim |-> "mass", factor |-> IntV(1000)],
     mm    |-> [dim |-> "length", factor |-> IntV(1)],
     cm    |-> [dim |-> "length", factor |-> IntV(10)],
     m     |-> [dim |-> "length", factor |-> IntV(1000)],
     in    |-> [dim |-> "length", factor |-> FloatV(254, 1)],
     inch  |-> [dim |-> "length", factor |-> FloatV(254, 1)],
     USD   |-> [dim |-> "money", factor |-> IntV(1)]]

RECURSIVE Factor(_)
Factor(u) ==
    IF u = <<>> THEN IntV(1)
    ELSE NumMul(UnitTable[Join(u[1])].factor, Factor(Tail(u)))

\* the dimensions of a product of units, as a bag
RECURSIVE Dims(_)
Dims(u) ==
    IF u = <<>> THEN [d \in {"mass", "length", "money"} |-> 0]
    ELSE [Dims(Tail(u)) EXCEPT ![UnitTable[Join(u[1])].dim] = @ + 1]

\* Unit('<number> <unit>') and Unit('<unit>')
UnitFromText(text, env) ==
    LET UnitOf(num, unit) ==
            IF Join(unit) \notin DOMAIN UnitTable THEN Raise("UnavailableUnit", env)
            ELSE IF ~Match(py_number_re \o Eol, num, 1, NoCaps).ok
            THEN Raise("ValueError", env)
            ELSE Ok(UnitV(NumberValue(num), <<unit>>), env)
        Parts(sp) ==
            IF sp > 0 THEN UnitOf(Before(text, sp), From(text, sp + 1))
            ELSE UnitOf(<<"1">>, text)
    IN Parts(FindFrom(text, " ", 1))

\* Unit.to(unit)
UnitTo(v, u, env) ==
    IF Dims(v.u) # Dims(u) THEN Raise("InconsistentUnitsError", env)
    ELSE Ok(UnitV(NumDiv(NumMul(Mag(v), Factor(v.u)), Factor(u)), u), env)

(***************************************************************************)
(* BeeParser.__init__: the operations and functions tables.                *)
(***************************************************************************)
OperationNames == {"Add", "Sub", "Mult", "Div", "FloorDiv", "Mod", "Pow", "LShift",
                   "RShift", "BitOr", "BitAnd", "USub", "UAdd", "In"}

FunctionNames ==
    {"mod", "acos", "acosh", "asin", "asinh", "atan", "atan2", "atanh", "ceil",
     "comb", "cos", "cosh", "dist", "erf", "erfc", "exp", "expm1", "fabs",
     "factorial", "floor", "fmod", "frexp", "gamma", "gcd", "hypot", "lcm",
     "ldexp", "lgamma", "log", "log10", "log1p", "log2", "modf", "perm",
     "remainder", "sin", "sinh", "sqrt", "tan", "tanh", "trunc", "ulp",
     "degrees", "radians", "abs", "bin", "complex", "divmod", "float", "int",
     "hex", "oct", "max", "min", "pow", "round", "expand", "simplify"}

RECURSIVE Fact(_)
Fact(n) == IF n <= 1 THEN 1 ELSE n * Fact(n - 1)

\* a faulty variant of convert: from_unit.to(...) whatever from_unit is
convert_ToOnly(from_unit, to_unit, env) ==
    IF to_unit.t # "unit" THEN Raise("AttributeError", env)
    ELSE IF from_unit.t = "unit" THEN UnitTo(from_unit, to_unit.u, env)
    ELSE Raise("AttributeError", env)

\* BeeParser.convert
convert(from_unit, to_unit, env) ==
    IF to_unit.t # "unit" THEN Raise("AttributeError", env)
    ELSE IF from_unit.t = "unit" THEN UnitTo(from_unit, to_unit.u, env)
    ELSE IF from_unit.t = "num" THEN Ok(UnitV(from_unit, to_unit.u), env)
    ELSE Raise("TypeError", env)

\* operator.floordiv on integers, with Python's sign rule (a % b is
\* a - b * (a // b))
PyFloorDiv(a, b) ==
    IF (a >= 0) = (b > 0) \/ a % Abs(b) = 0 THEN
        (IF (a < 0) = (b < 0) THEN Abs(a) \div Abs(b) ELSE -(Abs(a) \div Abs(b)))
    ELSE -(Abs(a) \div Abs(b)) - 1

\* the binary operators on a list or a str: sequence * int and
\* int * sequence repeat the sequence, list + list and str + str
\* concatenate, everything else is a TypeError
Sequence(op, l, r, env) ==
    LET Repeat(seq, n) ==
            Ok([seq EXCEPT !.items = [j \in 1..(Len(seq.items) * (IF n.m > 0 THEN n.m ELSE 0))
                                          |-> seq.items[((j - 1) % Len(seq.items)) + 1]]], env)
    IN CASE op = "Mult" /\ l.t \in {"list", "str"} /\ r.t = "num" /\ ~r.f -> Repeat(l, r)
         [] op = "Mult" /\ r.t \in {"list", "str"} /\ l.t = "num" /\ ~l.f -> Repeat(r, l)
         [] op = "Add" /\ l.t = r.t -> Ok([l EXCEPT !.items = l.items \o r.items], env)
         [] OTHER -> Raise("TypeError", env)

\* self.operations[op](left, right) for the binary operators
Apply(op, l, r, env) ==
    LET \* Unit + Unit and Unit - Unit, rr being r in the unit of l
        UnitAddSub(rr) ==
            Ok(UnitV(IF op = "Add" THEN NumAdd(Mag(l), Mag(rr))
                     ELSE NumSub(Mag(l), Mag(rr)),
                     l.u), env)
    IN
    IF op = "In" THEN convert(l, r, env)
    ELSE IF {l.t, r.t} \cap {"list", "str"} # {} THEN Sequence(op, l, r, env)
    ELSE IF l.t = "num" /\ r.t = "num"
    THEN CASE op = "Add" -> Ok(NumAdd(l, r), env)
           [] op = "Sub" -> Ok(NumSub(l, r), env)
           [] op = "Mult" -> Ok(NumMul(l, r), env)
           [] op = "Div" ->
                IF r.m = 0 THEN Raise("ZeroDivisionError", env)
                ELSE Ok(NumDiv(l, r), env)
           [] op \in {"FloorDiv", "Mod"} /\ r.m = 0 -> Raise("ZeroDivisionError", env)
           [] op = "FloorDiv" /\ ~l.f /\ ~r.f /\ r.m # 0 ->
                Ok(IntV(PyFloorDiv(l.m, r.m)), env)
           [] op = "Mod" /\ ~l.f /\ ~r.f /\ r.m # 0 -> Ok(IntV(l.m - r.m * PyFloorDiv(l.m, r.m)), env)
           [] op = "Pow" /\ ~r.f /\ r.m >= 0 ->
                Ok(Norm(l.f, IntPow(l.m, r.m), l.k * r.m), env)
           [] op \in {"LShift", "RShift", "BitOr", "BitAnd"} /\ (l.f \/ r.f) ->
                Raise("TypeError", env)
           [] op = "LShift" /\ ~l.f /\ ~r.f /\ r.m >= 0 ->
                Ok(IntV(l.m * IntPow(2, r.m)), env)
           [] op = "RShift" /\ ~l.f /\ ~r.f /\ r.m >= 0 ->
                Ok(IntV(PyFloorDiv(l.m, IntPow(2, r.m))), env)
    ELSE \* a unit quantity on at least one side
         CASE op = "Mult" /\ l.t = "unit" /\ r.t = "unit" ->
                Ok(UnitV(NumMul(Mag(l), Mag(r)), l.u \o r.u), env)
           [] op = "Mult" /\ l.t = "unit" /\ r.t = "num" ->
                Ok(UnitV(NumMul(Mag(l), r), l.u), env)
           [] op = "Mult" /\ l.t = "num" /\ r.t = "unit" ->
                Ok(UnitV(NumMul(l, Mag(r)), r.u), env)
           [] op \in {"Add", "Sub"} /\ l.t = "unit" /\ r.t = "unit" ->
                IF Dims(l.u) # Dims(r.u) THEN Raise("InconsistentUnitsError", env)
                ELSE UnitAddSub(UnitTo(r, l.u, env).v)
           [] op \in {"Add", "Sub"} /\ (l.t = "num" \/ r.t = "num") ->
                Raise("InconsistentUnitsError", env)
           [] op \in {"LShift", "RShift", "BitOr", "BitAnd"} -> Raise("TypeError", env)

\* self.functions[func](*args) for the functions of the model
CallFunction(func, args, env) ==
    CASE func = "factorial" /\ Len(args) = 1 ->
            IF args[1].t # "num" \/ args[1].f THEN Raise("TypeError", env)
            ELSE IF args[1].m < 0 THEN Raise("ValueError", env)
            ELSE Ok(IntV(Fact(args[1].m)), env)
      [] func = "abs" /\ Len(args) = 1 /\ args[1].t = "num" ->
            Ok(Val("num", args[1].f, Abs(args[1].m), args[1].k, <<>>, <<>>), env)
      [] func = "mod" /\ Len(args) = 2 -> Apply("Mod", args[1], args[2], env)
      [] func = "pow" /\ Len(args) = 2 -> Apply("Pow", args[1], args[2], env)
      [] func \in {"factorial", "abs"} /\ Len(args) # 1 -> Raise("TypeError", env)
      [] func \in {"mod", "pow"} /\ Len(args) \notin {2, 3} -> Raise("TypeError", env)

\* a faulty variant of lines 298-299: one target bound, not every one
Bind_OneTarget(env, targets, value) ==
    LET one == CHOOSE n \in targets : TRUE
    IN [n \in DOMAIN env \cup {one} |-> IF n = one THEN value ELSE env[n]]

\* lines 298-299: self.vars[target.id] = value for every target
Bind(env, targets, value) ==
    [n \in DOMAIN env \cup targets |-> IF n \in targets THEN value ELSE env[n]]

(***************************************************************************)
(* BeeParser.evaluate.  env is self.vars, threaded through the walk.       *)
(***************************************************************************)
RECURSIVE evaluate(_, _), EvaluateAll(_, _, _, _)

\* the values of nodes[j..], left to right; stops at the first exception
EvaluateAll(nodes, j, vals, env) ==
    LET Evaluated(r) ==
            IF ~r.ok THEN [ok |-> FALSE, vals |-> vals, err |-> r.err, env |-> r.env]
            ELSE EvaluateAll(nodes, j + 1, Append(vals, r.v), r.env)
    IN IF j > Len(nodes) THEN [ok |-> TRUE, vals |-> vals, err |-> "", env |-> env]
       ELSE Evaluated(evaluate(nodes[j], env))

\* BeeParser.evaluate on a node of the tree
evaluate(node, env) ==
    LET \* any([a, b]) over dict.get results (None is modelled by Empty)
        Found(d, id) == Has(d, id) /\ Truthy(Get(d, id))
        \* lines 268-274, rs being the statements evaluated
        Module_(rs) ==
            IF ~rs.ok THEN Raise(rs.err, rs.env)
            ELSE IF Len(rs.vals) = 1 THEN Ok(rs.vals[1], rs.env)
            ELSE Ok(ListV(rs.vals), rs.env)
        \* lines 282-288 and 302-310, rs being the two operands evaluated
        BinOp_(op, rs) ==
            IF ~rs.ok THEN Raise(rs.err, rs.env)
            ELSE IF op \notin OperationNames THEN Raise("ValueError", rs.env)
            ELSE Apply(op, rs.vals[1], rs.vals[2], rs.env)
        \* lines 290-294, x being the operand evaluated
        UnaryOp_(op, x) ==
            IF ~x.ok THEN x
            ELSE IF x.v.t \in {"list", "str"} THEN Raise("TypeError", x.env)
            ELSE IF op = "UAdd" THEN x
            ELSE Ok([x.v EXCEPT !.m = -x.v.m], x.env)
        \* lines 296-300, value being node.value evaluated
        Assign_(targets, value) ==
            IF ~value.ok THEN value
            ELSE Ok(value.v, Bind(value.env, targets, value.v))
        \* lines 313-321: number * self.evaluate(node.args[0])
        ImpliedMult(n, a) == IF ~a.ok THEN a ELSE Apply("Mult", n, a.v, a.env)
        \* lines 336-345, rs being the arguments evaluated
        Function_(func, rs) ==
            IF ~rs.ok THEN Raise(rs.err, rs.env)
            ELSE IF func \notin FunctionNames THEN Raise("ValueError", rs.env)
            ELSE CallFunction(func, rs.vals, rs.env)
        \* lines 350-353: Unit(node.id), any exception becoming a ValueError
        UnitOrValueError(u) == IF u.ok THEN u ELSE Raise("ValueError", env)
    IN
    CASE node.k = "Module" -> Module_(EvaluateAll(node.kids, 1, <<>>, env))
      [] node.k = "Expr" -> evaluate(node.kids[1], env)
      [] node.k = "BinOp" -> BinOp_(node.op, EvaluateAll(node.kids, 1, <<>>, env))
      [] node.k = "UnaryOp" ->
            IF node.op \notin OperationNames THEN Raise("ValueError", env)
            ELSE UnaryOp_(node.op, evaluate(node.kids[1], env))
      [] node.k = "Assign" ->
            Assign_({Join(node.kids[j].id) : j \in 1..(Len(node.kids) - 1)},
                    evaluate(node.kids[Len(node.kids)], env))
      [] node.k = "Compare" ->
            BinOp_(node.ops[1], EvaluateAll(SubSeq(node.kids, 1, 2), 1, <<>>, env))
      [] node.k = "Call" ->
            IF node.kids[1].k = "Constant"
               \/ (node.kids[1].k = "Name"
                   /\ (Found(env, node.kids[1].id) \/ Found(constants, node.kids[1].id)))
            THEN \* implied multiplication
                 IF Len(node.kids) = 1 THEN Raise("IndexError", env)
                 ELSE ImpliedMult(IF node.kids[1].k = "Constant" THEN node.kids[1].v
                                  ELSE Or(Lookup(constants, node.kids[1].id),
                                          Lookup(env, node.kids[1].id)),
                                  evaluate(node.kids[2], env))
            ELSE IF node.kids[1].k # "Name" THEN Raise("AttributeError", env)
            ELSE IF node.kids[1].id = <<"U", "n", "i", "t">> /\ Len(node.kids) = 2
                    /\ node.kids[2].k = "Str"
            THEN UnitFromText(node.kids[2].id, env)
            ELSE Function_(Join(node.kids[1].id),
                           EvaluateAll(Tail(node.kids), 1, <<>>, env))
      [] node.k = "Name" ->
            IF ~(Found(constants, node.id) \/ Found(env, node.id))
            THEN UnitOrValueError(UnitFromText(node.id, env))
            ELSE Ok(Or(Lookup(env, node.id), Lookup(constants, node.id)), env)
      [] node.k = "Constant" -> Ok(node.v, env)
      [] node.k = "Str" -> Ok(StrV(node.id), env)
      [] node.k = "List" -> Raise("TypeError", env)

(***************************************************************************)
(* The lines a caller submits to BeeNotepad.append.                        *)
(***************************************************************************)
Line ==
    [TwoPlusThree   |-> <<"2", "+", "3">>,
     AtPlusOne      |-> <<"@", "+", "1">>,
     Five           |-> <<"5">>,
     FiveMinusFive  |-> <<"5", "-", "5">>,
     SmallFloat     |-> <<"0", ".", "0", "0", "0", "0", "1">>,
     AssignA        |-> <<"a", "=", "1">>,
     ATimesTwo      |-> <<"a", "*", "2">>,
     AssignThenFail |-> <<"a", "=", "1", ";", "1", "/", "0">>,
     DivZero        |-> <<"8", "/", "0">>,
     AssignPi       |-> <<"p", "i", "=", "3">>,
     PiTimesTwo     |-> <<"p", "i", "*", "2">>,
     LbInGrams      |-> <<"2", " ", "l", "b", " ", "i", "n", " ", "g", "r", "a", "m", "s">>,
     LbToGrams      |-> <<"2", " ", "l", "b", " ", "t", "o", " ", "g", "r", "a", "m", "s">>,
     EmptyLine      |-> <<>>,
     SpacesLine     |-> <<" ", " ">>,
     CommentLine    |-> <<"#", " ", "c">>]

Lines == {Line[n] : n \in DOMAIN Line}

\* lines in the notations parse rewrites, and lines naming the constant π
Notation ==
    [PercentOfSpaced |-> <<"5", "0", " ", "%", " ", "o", "f", " ", "8">>,
     PercentOfTight  |-> <<"2", "0", "%", " ", "o", "f", " ", "1", "0", "0">>,
     FiveFactorial   |-> <<"5", "!">>,
     TwoFactorials   |-> <<"3", "!", "+", "2", "!">>,
     ThreeToMm       |-> <<"3", " ", "t", "o", " ", "m", "m">>,
     AssignGreekPi   |-> <<"π", " ", "=", " ", "3">>,
     GreekPiTimesTwo |-> <<"π", "*", "2">>,
     Modulo           |-> <<"8", " ", "%", " ", "3">>,
     PercentSum       |-> <<"5", "0", "%", " ", "+", " ", "8", " ", "%", "3">>,
     ModuloOf         |-> <<"7", " ", "%", " ", "2", " ", "%", " ", "o", "f", " ", "4">>,
     PercentOfPercent |-> <<"2", "0", "%", " ", "o", "f", " ", "5", "0", "%">>]

NotationLines == {Notation[n] : n \in DOMAIN Notation}

\* lines that assign variables and lines that use them, with and without a
\* comment, and lines with `^`, `@` and other binary operators
Variable ==
    [AssignAB   |-> <<"a", " ", "=", " ", "b", " ", "=", " ", "3">>,
     AssignA8   |-> <<"a", "=", "8">>,
     AssignA0   |-> <<"a", "=", "0">>,
     APlusOne   |-> <<"a", "+", "1">>,
     AParen     |-> <<"a", "(", "1", "+", "2", ")">>,
     FiveParen  |-> <<"5", "(", "1", "+", "2", ")">>,
     AssignA8Commented  |-> <<"a", "=", "8", " ", "#", "b", " ", "=", " ", "5", "!">>,
     APlusOneCommented  |-> <<"a", "+", "1", " ", "#", "a", " ", "=", " ", "9", " ", "m">>,
     FiveParenCommented |-> <<"5", "(", "1", "+", "2", ")", " ", "#", "5", "0", "%", " ", "$", "3", " ", "t", "o", " ", "m", "m">>,
     OnlyComment        |-> <<" ", "#", "3", " ", "m">>,
     Power              |-> <<"2", "^", "3">>,
     AnsPower           |-> <<"@", "^", "2">>,
     IntOps             |-> <<"7", "/", "/", "2", "%", "3", "-", "1">>,
     Shifts             |-> <<"8", ">", ">", "1", "<", "<", "2">>]

VariableLines == {Variable[n] : n \in DOMAIN Variable}

\* lines of the text MainWindow.processNotepad reads
Document ==
    [Tiny       |-> <<"0", ".", "0", "0", "0", "0", "0", "0", "0", "0", "0", "0", "0", "0", "0", "0", "0", "1">>,
     NegTiny    |-> <<"-", "0", ".", "0", "0", "0", "0", "0", "0", "0", "0", "0", "0", "0", "0", "0", "0", "0", "1">>,
     Epsilon    |-> <<"0", ".", "0", "0", "0", "0", "0", "0", "0", "0", "0", "0", "0", "0", "0", "0", "1">>,
     Small      |-> <<"0", ".", "0", "0", "0", "0", "0", "0", "0", "0", "0", "0", "0", "0", "0", "1">>,
     Zero       |-> <<"5", "-", "5">>,
     Five       |-> <<"5">>,
     Half       |-> <<"0", ".", "5">>,
     AtTimesTwo |-> <<"@", "*", "2">>,
     DivZero    |-> <<"8", "/", "0">>,
     EmptyLine  |-> <<>>]

DocumentLines == {Document[n] : n \in DOMAIN Document}

\* lines with a unit literal, a comparison or a chain of comparisons, and a
\* line that assigns the name Unit
Grammar ==
    [AssignUnit  |-> <<"U", "n", "i", "t", " ", "=", " ", "5">>,
     TwoLb       |-> <<"2", " ", "l", "b">>,
     OneEqOne    |-> <<"1", "=", "=", "1">>,
     OneNeTwo    |-> <<"1", "!", "=", "2">>,
     OneLtTwo    |-> <<"1", "<", "2">>,
     TwoLeTwo    |-> <<"2", "<", "=", "2">>,
     ThreeGtTwo  |-> <<"3", ">", "2">>,
     ThreeGeFour |-> <<"3", ">", "=", "4">>,
     ChainTo     |-> <<"1", " ", "m", " ", "t", "o", " ", "c", "m", " ", "t", "o", " ", "m", "m">>,
     ChainLt     |-> <<"1", "<", "2", "<", "3">>]

GrammarLines == {Grammar[n] : n \in DOMAIN Grammar}

\* lines that the while loops of parse rewrite more than once
Rewriting ==
    [FactorialTwice |-> <<"5", "!", "!">>,
     TwoFactorials  |-> <<"3", "!", "+", "2", "!">>,
     TwoMoney       |-> <<"$", "1", "$", "2">>,
     DoubleDollar   |-> <<"$", "$", "1">>,
     MoneyToTwice   |-> <<"$", "1", " ", "t", "o", " ", "$", " ", "t", "o", " ", "$">>,
     TwoUnits       |-> <<"3", " ", "m", " ", "m">>,
     UnitAfterDigit |-> <<"m", "3", "x">>,
     ThreeUnits     |-> <<"2", " ", "m", " ", "3", " ", "m", " ", "k", "g">>]

RewritingLines == {Rewriting[n] : n \in DOMAIN Rewriting}

AllLines ==
    Lines \cup NotationLines \cup VariableLines \cup DocumentLines \cup GrammarLines
    \cup RewritingLines

EmptyDict == [n \in {} |-> Empty]

\* What parse computes for each line of AllLines while no name of the line is
\* bound in self.vars: the text rewritten up to line 200, the text with its
\* names substituted (line 204), and the syntax tree of the text rewritten
\* to the end.  They do not depend on the state.
LineTree ==
    LET Substituted(rewritten, substituted) ==
            [rewritten |-> rewritten, substituted |-> substituted,
             tree |-> ast_parse(Rewrites(11, 17, substituted, EmptyDict))]
        Unbound(rewritten) ==
            Substituted(rewritten, Rewrites(10, 10, rewritten, EmptyDict))
    IN [l \in AllLines |-> Unbound(Rewrites(1, 9, l, EmptyDict))]

\* The texts each while loop of parse goes through for each line of
\* RewritingLines while no name of the line is bound in self.vars.  They do
\* not depend on the state.
LoopTexts ==
    [l \in RewritingLines, n \in {9, 11, 12, 15} |->
        Iterations(n, Rewrites(1, n - 1, l, EmptyDict), 1)]

\* the texts the while loop that is rewrite n goes through in parse(text)
WhileLoop(n, text, env) ==
    IF /\ text \in RewritingLines
       /\ Rewrites(10, 10, LineTree[text].rewritten, env) = LineTree[text].substituted
    THEN LoopTexts[text, n]
    ELSE Iterations(n, Rewrites(1, n - 1, text, env), 1)

\* BeeParser.parse: rewrite (lines 180-252), parse (line 266), evaluate
\* (line 259); the tree of a line whose substituted text is the one of
\* LineTree is the tree of LineTree
parse(text, env) ==
    LET Evaluation(tree) ==
            IF tree.ok THEN evaluate(tree.node, env) ELSE Raise("SyntaxError", env)
        TreeOf(line, substituted) ==
            IF substituted = line.substituted THEN line.tree
            ELSE ast_parse(Rewrites(11, 17, substituted, env))
        Tree(line) == TreeOf(line, Rewrites(10, 10, line.rewritten, env))
    IN Evaluation(Tree(LineTree[text]))

(***************************************************************************)
(* BeeNotepad.  vars is the dict parser.vars names; _vars is the dict the  *)
(* notepad took a reference to in __init__; aliased says that the two      *)
(* names still denote the same dict.  ret is what the last call gave its   *)
(* caller: the value returned, or the exception raised.                    *)
(***************************************************************************)
\* the longest history the model lets a notepad grow between two clears,
\* and the longest text it lets the window read
MaxHist == 2

\* d[name] = v
Put(d, name, v) == [n \in DOMAIN d \cup {name} |-> IF n = name THEN v ELSE d[n]]

Returned(text, v) == [call |-> "append", text |-> text, ok |-> TRUE, v |-> v, err |-> ""]

\* a faulty variant of append: the exception caught, [] returned
Raised_Swallowed(text, err) ==
    [call |-> "append", text |-> text, ok |-> TRUE, v |-> Empty, err |-> ""]

Raised(text, err) ==
    [call |-> "append", text |-> text, ok |-> FALSE, v |-> Empty, err |-> err]

NoCall(call) == [call |-> call, text |-> <<>>, ok |-> TRUE, v |-> Empty, err |-> ""]

\* BeeNotepad.__init__
Init ==
    /\ input = <<>>
    /\ output = <<>>
    /\ vars = EmptyDict
    /\ _vars = EmptyDict
    /\ aliased = TRUE
    /\ ret = NoCall("init")
    /\ document = <<>>
    /\ all_output = <<>>

\* a faulty variant of lines 380-385: line 382 (self.output.append) left out
Store_InputOnly(text, out) ==
    IF ~out.ok
    THEN /\ vars' = out.env
         /\ _vars' = IF aliased THEN out.env ELSE _vars
         /\ UNCHANGED <<input, output>>
         /\ ret' = Raised(text, out.err)
    ELSE /\ IF Truthy(out.v)
            THEN /\ input' = Append(input, text)
                 /\ UNCHANGED output
            ELSE UNCHANGED <<input, output>>
         /\ _vars' = Put(IF aliased THEN out.env ELSE _vars, "ans", out.v)
         /\ vars' = IF aliased THEN Put(out.env, "ans", out.v) ELSE out.env
         /\ ret' = Returned(text, out.v)

\* lines 380-385 of append, out being what self.parser.parse(text) did
Store(text, out) ==
    IF ~out.ok
    THEN \* the exception leaves append at line 379
         /\ vars' = out.env
         /\ _vars' = IF aliased THEN out.env ELSE _vars
         /\ UNCHANGED <<input, output>>
         /\ ret' = Raised(text, out.err)
    ELSE /\ IF Truthy(out.v)
            THEN /\ input' = Append(input, text)
                 /\ output' = Append(output, out.v)
            ELSE UNCHANGED <<input, output>>
         /\ _vars' = Put(IF aliased THEN out.env ELSE _vars, "ans", out.v)
         /\ vars' = IF aliased THEN Put(out.env, "ans", out.v) ELSE out.env
         /\ ret' = Returned(text, out.v)

\* BeeNotepad.append(text)
append(text) ==
    /\ Len(input) < MaxHist
    /\ Store(text, parse(text, vars))
    /\ UNCHANGED <<aliased, document, all_output>>

\* a faulty variant of clear: line 390 (self.parser.vars = {}) left out
clear_KeepsVars ==
    /\ input' = <<>>
    /\ output' = <<>>
    /\ ret' = NoCall("clear")
    /\ UNCHANGED <<vars, _vars, aliased, document, all_output>>

\* BeeNotepad.clear()
clear ==
    /\ input' = <<>>
    /\ output' = <<>>
    /\ vars' = EmptyDict
    /\ aliased' = FALSE
    /\ ret' = NoCall("clear")
    /\ UNCHANGED <<_vars, document, all_output>>

Next == (\E text \in Lines : append(text)) \/ clear

Spec == Init /\ [][Next]_vars_all

(***************************************************************************)
(* MainWindow.processNotepad (beecalc.py): the notepad is cleared, then    *)
(* each line of the text is appended and its result reported.  ret.v of a  *)
(* processNotepad_line call is out as the loop body reports it.            *)
(***************************************************************************)
\* a faulty variant of lines 1043-1044: out left as append returned it
ZeroSnap_None(out) == out

\* lines 1043-1044 for a number: math.isclose(out, 0, abs_tol=1e-15) is
\* |out| <= 1e-15, and |m / 10^k| <= 10^-15 only if m = 0 or k >= 15
ZeroSnap(out) ==
    IF out.m = 0 \/ (out.k >= 15 /\ Abs(out.m) <= Pow10(out.k - 15)) THEN IntV(0)
    ELSE out

\* a faulty variant of lines 1030-1033: parser.vars not emptied
processNotepad_clear_Keeps ==
    /\ input' = <<>>
    /\ output' = <<>>
    /\ document' = <<>>
    /\ all_output' = <<>>
    /\ ret' = NoCall("processNotepad")
    /\ UNCHANGED <<vars, _vars, aliased>>

\* lines 1030-1033: self.notepad.clear() and all_output = [] before the
\* loop; document is the part of the text the loop has read
processNotepad_clear ==
    /\ input' = <<>>
    /\ output' = <<>>
    /\ vars' = EmptyDict
    /\ aliased' = FALSE
    /\ document' = <<>>
    /\ all_output' = <<>>
    /\ ret' = NoCall("processNotepad")
    /\ UNCHANGED _vars

\* a faulty variant of line 1118: the row of a line that failed left out
Rows_ValuesOnly(rows, outtext) == IF outtext.ok THEN Append(rows, outtext) ELSE rows

\* line 1118, all_output.append(outtext).  A row is the value reported, []
\* for the empty row, or the exception in the place of its out_msg
Rows(rows, outtext) == Append(rows, outtext)

\* lines 1040-1119, one turn of the loop: the notebook and the rows after
\* it, s being the notebook and the rows before it and out what
\* self.notepad.append(line) did (lines 378-385 of beenotepad.py): the zero
\* snap, parser.vars['ans'], the except clauses and the row.  The results
\* of the lines of DocumentLines are numbers, lists and exceptions; what
\* math.isclose makes of a Unit is the unit library's.
Report(s, line, out) ==
    LET Line_(ok, v, err) ==
            [call |-> "processNotepad", text |-> line, ok |-> ok, v |-> v, err |-> err]
        \* o is out; appended is parser.vars, and appended_ notepad._vars,
        \* when append has returned or raised
        Turn(o, appended, appended_) ==
            LET \* the exception of append, or of math.isclose on a list or a str
                Except(err) ==
                    [vars |-> appended, _vars |-> appended_, ret |-> Line_(FALSE, Empty, err)]
                \* lines 1042-1071, reported being out after lines 1043-1044
                Reported(reported) ==
                    [vars |-> IF Truthy(reported) THEN Put(appended, "ans", reported)
                              ELSE appended,
                     _vars |-> IF ~s.aliased THEN appended_
                               ELSE IF Truthy(reported) THEN Put(appended, "ans", reported)
                               ELSE appended,
                     ret |-> Line_(TRUE, reported, "")]
                Outcome ==
                    CASE ~o.ok -> Except(o.err)
                      [] o.ok /\ o.v = Empty -> Reported(Empty)
                      [] o.ok /\ o.v.t = "num" -> Reported(ZeroSnap(o.v))
                      [] o.ok /\ o.v.t \in {"list", "str"} /\ o.v # Empty ->
                            Except("TypeError")
                After(n) ==
                    [s EXCEPT !.input = IF o.ok /\ Truthy(o.v) THEN Append(@, line) ELSE @,
                              !.output = IF o.ok /\ Truthy(o.v) THEN Append(@, o.v) ELSE @,
                              !.vars = n.vars,
                              !._vars = n._vars,
                              !.ret = n.ret,
                              !.document = Append(@, line),
                              !.all_output = Rows(@, [ok |-> n.ret.ok, v |-> n.ret.v,
                                                      err |-> n.ret.err])]
            IN After(Outcome)
    IN CHOOSE after \in
           {Turn(o,
                 IF o.ok /\ s.aliased THEN Put(o.env, "ans", o.v) ELSE o.env,
                 IF s.aliased THEN (IF o.ok THEN Put(o.env, "ans", o.v) ELSE o.env)
                 ELSE IF o.ok THEN Put(s._vars, "ans", o.v) ELSE s._vars) : o \in {out}} : TRUE

\* lines 1038-1119: the loop over the lines of text, from the notebook and
\* the rows s
RECURSIVE Run(_, _)
Run(s, text) ==
    IF text = <<>> THEN s
    ELSE CHOOSE end \in
             {Run(after, Tail(text)) :
                 after \in {Report(before, Head(text), parse(Head(text), before.vars)) :
                               before \in {s}}} : TRUE

\* lines 1039-1119, one turn of the loop
processNotepad_line(line) ==
    /\ ret.call = "processNotepad"
    /\ Len(all_output) < MaxHist
    /\ \E after \in {Report([input |-> input, output |-> output, vars |-> vars,
                               _vars |-> _vars, aliased |-> aliased, ret |-> ret,
                               document |-> document, all_output |-> all_output],
                              line, parse(line, vars))} :
          /\ input' = after.input
          /\ output' = after.output
          /\ vars' = after.vars
          /\ _vars' = after._vars
          /\ ret' = after.ret
          /\ document' = after.document
          /\ all_output' = after.all_output
    /\ UNCHANGED aliased

NextWindow == processNotepad_clear \/ (\E line \in DocumentLines : processNotepad_line(line))

SpecWindow == Init /\ [][NextWindow]_vars_all

\* the sessions of the lines of NotationLines
NextNotation == (\E text \in NotationLines : append(text)) \/ clear

SpecNotation == Init /\ [][NextNotation]_vars_all

\* the sessions of the lines of VariableLines
NextVariable == (\E text \in VariableLines : append(text)) \/ clear

SpecVariable == Init /\ [][NextVariable]_vars_all

\* the sessions of the lines of GrammarLines
NextGrammar == (\E text \in GrammarLines : append(text)) \/ clear

SpecGrammar == Init /\ [][NextGrammar]_vars_all

\* the sessions of the lines of RewritingLines
NextRewriting == (\E text \in RewritingLines : append(text)) \/ clear

SpecRewriting == Init /\ [][NextRewriting]_vars_all

(***************************************************************************)
(* The properties.  ret is the outcome of the last call, so a step with    *)
(* ret'.call = "append" is a call of append(ret'.text), made in the state  *)
(* the unprimed variables describe.                                        *)
(***************************************************************************)
Blank == {Line.EmptyLine, Line.SpacesLine, Line.CommentLine}

\* C1: on a notepad that was never cleared, when append returns a non-zero
\* number v, the line `@+1` appended next returns v + 1 (`2+3` then `@+1`
\* return 5 then 6).
C1_AnsPropagates ==
    [][(/\ aliased
        /\ ret.call = "append" /\ ret.ok /\ ret.v.t = "num" /\ ret.v.m # 0
        /\ ret'.call = "append" /\ ret'.text = Line.AtPlusOne)
       => (ret'.ok /\ ret'.v = NumAdd(ret.v, IntV(1)))]_vars_all

\* C2: after any appends and clears, an append that returned a non-empty
\* result v has left `ans` bound to v in parser.vars, the environment the
\* parser reads.
C2_AnsInParserVars ==
    (ret.call = "append" /\ ret.ok /\ Truthy(ret.v))
        => ("ans" \in DOMAIN vars /\ vars["ans"] = ret.v)

\* C3: `a*2` returns twice the value of a once a line has assigned a (2
\* after `a=1`), and while a is unassigned it raises the undefined-name
\* error (the ValueError of evaluate, line 353) and returns no value.
C3_VariableVisibility ==
    [][(ret'.call = "append" /\ ret'.text = Line.ATimesTwo)
       => IF "a" \in DOMAIN vars
          THEN ret'.ok /\ ret'.v = NumMul(vars["a"], IntV(2))
          ELSE ~ret'.ok /\ ret'.err = "ValueError"]_vars_all

\* C4: in every reachable state, whatever the appends (returning a value,
\* returning Empty, raising) and clears so far, len(input) = len(output).
C4_HistoryLengths == Len(input) = Len(output)

C4_Witness ==
    /\ Len(input) = 1 /\ Len(output) = 1
    /\ ~aliased
    /\ ret.call = "append" /\ ~ret.ok

\* C5: an append that raises leaves input, output and every binding of the
\* variable environment, `ans` included, as they were before the call.
C5_ErrorLeavesState ==
    [][(ret'.call = "append" /\ ~ret'.ok)
       => (input' = input /\ output' = output /\ vars' = vars /\ _vars' = _vars)]_vars_all

\* C6: clear leaves input and output empty and the environment of
\* evaluation empty: the line appended next evaluates as it does on a new
\* notepad, seeing no variable (nor `ans`) bound before the clear.
C6_ClearEmpties ==
    [][/\ ret'.call = "clear" => (input' = <<>> /\ output' = <<>> /\ vars' = EmptyDict)
       /\ (ret.call = "clear" /\ ret'.call = "append")
             => /\ ret'.ok = parse(ret'.text, EmptyDict).ok
                /\ ret'.v = parse(ret'.text, EmptyDict).v
                /\ ret'.err = parse(ret'.text, EmptyDict).err]_vars_all

C6_Witness ==
    /\ ret.call = "clear"
    /\ {"a", "pi", "ans"} \subseteq DOMAIN _vars
    /\ input = <<>> /\ output = <<>> /\ vars = EmptyDict

\* C7: append of a blank, whitespace-only or comment-only line raises no
\* error, returns Empty and adds no pair to the history.
C7_BlankLines ==
    [][(ret'.call = "append" /\ ret'.text \in Blank)
       => (ret'.ok /\ ret'.v = Empty /\ input' = input /\ output' = output)]_vars_all

C7_Witness ==
    /\ ret.call = "append" /\ ret.text = Line.CommentLine /\ ret.ok /\ ret.v = Empty
    /\ Len(input) = 1

\* C8: append of a blank or comment-only line leaves the binding of `ans`,
\* like every other binding, unchanged (so `5`, an empty line, `@+1` give 6
\* on the third line).
C8_BlankKeepsAns ==
    [][(ret'.call = "append" /\ ret'.text \in Blank)
       => (vars' = vars /\ _vars' = _vars)]_vars_all

\* C9: `pi*2` returns twice the constant pi, whatever the lines before it
\* assigned to a variable named pi.
C9_ConstantWins ==
    [][(ret'.call = "append" /\ ret'.text = Line.PiTimesTwo)
       => (ret'.ok /\ ret'.v = NumMul(constants["pi"], IntV(2)))]_vars_all

C9_Witness ==
    /\ ret.call = "append" /\ ret.text = Line.PiTimesTwo /\ ret.ok
    /\ "pi" \in DOMAIN vars /\ vars["pi"] = IntV(3)

\* C10: `2 lb in grams` and `2 lb to grams` both return 2 lb converted to
\* grams, 907.18474 grams.
C10_InIsTo ==
    [][(ret'.call = "append" /\ ret'.text \in {Line.LbInGrams, Line.LbToGrams})
       => (ret'.ok /\ ret'.v = UnitV(FloatV(90718474, 5), <<<<"g", "r", "a", "m", "s">>>>))]_vars_all

\* C11: `50 % of 8` returns (50/100)*8, the float 4, and `20% of 100`
\* returns (20/100)*100, the float 20, whatever the lines appended before.
C11_PercentOf ==
    [][/\ (ret'.call = "append" /\ ret'.text = Notation.PercentOfSpaced)
            => /\ ret'.ok
               /\ ret'.v = NumMul(NumDiv(IntV(50), IntV(100)), IntV(8))
               /\ ret'.v = FloatV(4, 0)
       /\ (ret'.call = "append" /\ ret'.text = Notation.PercentOfTight)
            => /\ ret'.ok
               /\ ret'.v = NumMul(NumDiv(IntV(20), IntV(100)), IntV(100))
               /\ ret'.v = FloatV(20, 0)]_vars_all

C11_Witness ==
    /\ ret.call = "append" /\ ret.text = Notation.PercentOfTight /\ ret.ok
    /\ input = <<Notation.PercentOfSpaced, Notation.PercentOfTight>>
    /\ output = <<FloatV(4, 0), FloatV(20, 0)>>

\* C12: `5!` returns 120, the factorial of 5, and every `<integer>!` of a
\* line is rewritten to factorial(<integer>): `3!+2!` becomes
\* `factorial(3)+factorial(2)` and returns 8.
C12_Factorial ==
    [][/\ (ret'.call = "append" /\ ret'.text = Notation.FiveFactorial)
            => (ret'.ok /\ ret'.v = IntV(Fact(5)) /\ ret'.v = IntV(120))
       /\ (ret'.call = "append" /\ ret'.text = Notation.TwoFactorials)
            => /\ Factorials(ret'.text)
                    = <<"f", "a", "c", "t", "o", "r", "i", "a", "l", "(", "3", ")", "+",
                        "f", "a", "c", "t", "o", "r", "i", "a", "l", "(", "2", ")">>
               /\ ret'.ok
               /\ ret'.v = IntV(Fact(3) + Fact(2))]_vars_all

C12_Witness ==
    /\ ret.call = "append" /\ ret.text = Notation.TwoFactorials /\ ret.ok
    /\ input = <<Notation.FiveFactorial, Notation.TwoFactorials>>
    /\ output = <<IntV(120), IntV(8)>>

\* C13: append of `8/0` raises ZeroDivisionError: it returns no value, and
\* input and output are left as they were.
C13_DivisionByZero ==
    [][(ret'.call = "append" /\ ret'.text = Line.DivZero)
       => /\ ~ret'.ok
          /\ ret'.err = "ZeroDivisionError"
          /\ input' = input /\ output' = output]_vars_all

C13_Witness ==
    /\ ret.call = "append" /\ ret.text = Line.DivZero /\ ret.err = "ZeroDivisionError"
    /\ input = <<Line.TwoPlusThree>> /\ output = <<IntV(5)>>

\* C14: append of `a = b = 3` returns 3 and leaves both a and b bound to 3
\* in parser.vars, whatever a and b were bound to before.
C14_AssignBindsAll ==
    [][(ret'.call = "append" /\ ret'.text = Variable.AssignAB)
       => /\ ret'.ok /\ ret'.v = IntV(3)
          /\ {"a", "b"} \subseteq DOMAIN vars'
          /\ vars'["a"] = IntV(3) /\ vars'["b"] = IntV(3)]_vars_all

C14_Witness ==
    /\ ret.call = "append" /\ ret.text = Variable.AssignAB /\ ret.v = IntV(3)
    /\ input = <<Variable.AssignA8, Variable.AssignAB>>
    /\ vars["a"] = IntV(3) /\ vars["b"] = IntV(3)

\* C15: `5(1+2)` returns 15, and `a(1+2)`, appended while a is bound to a
\* number, returns the product of that number and 3 (24 after `a=8`).
C15_ImpliedMultiplication ==
    [][/\ (ret'.call = "append" /\ ret'.text = Variable.FiveParen)
            => (ret'.ok /\ ret'.v = IntV(15))
       /\ (/\ ret'.call = "append" /\ ret'.text = Variable.AParen
           /\ "a" \in DOMAIN vars /\ vars["a"].t = "num")
            => (ret'.ok /\ ret'.v = NumMul(vars["a"], IntV(3)))]_vars_all

\* C16: `3 to mm`, whose left operand is a plain number, raises no error
\* and returns the unit quantity of magnitude 3 and unit mm.
C16_NumberToUnit ==
    [][(ret'.call = "append" /\ ret'.text = Notation.ThreeToMm)
       => (ret'.ok /\ ret'.v = UnitV(IntV(3), <<<<"m", "m">>>>))]_vars_all

C16_Witness ==
    /\ ret.call = "append" /\ ret.text = Notation.ThreeToMm /\ ret.ok
    /\ output = <<UnitV(IntV(3), <<<<"m", "m">>>>)>>

C18_GreekConstantWins ==
    [][(ret'.call = "append" /\ ret'.text = Notation.GreekPiTimesTwo)
       => (ret'.ok /\ ret'.v = NumMul(constants["π"], IntV(2)))]_vars_all

\* C19: `a+1`, appended while a is bound to a number, returns that number
\* plus 1, the number 0 included (1 after `a=0`).
C19_ZeroVariableVisible ==
    [][(/\ ret'.call = "append" /\ ret'.text = Variable.APlusOne
        /\ "a" \in DOMAIN vars /\ vars["a"].t = "num")
       => (ret'.ok /\ ret'.v = NumAdd(vars["a"], IntV(1)))]_vars_all

\* C20: an append that returns a value other than Empty, the number 0
\* included, adds exactly the pair (line, value) to the end of the history.
C20_NonEmptyRecorded ==
    [][(ret'.call = "append" /\ ret'.ok /\ ret'.v # Empty)
       => (input' = Append(input, ret'.text) /\ output' = Append(output, ret'.v))]_vars_all

\* C21: append of the unit literal `2 lb` returns the quantity 2 lb whatever
\* parser.vars holds, a binding of the name Unit included.
C21_UnitLiteralIndependent ==
    [][(ret'.call = "append" /\ ret'.text = Grammar.TwoLb)
       => (ret'.ok /\ ret'.v = UnitV(IntV(2), <<<<"l", "b">>>>))]_vars_all

\* the lines that compare two numbers with one operator, and the result of
\* the comparison
C22_Comparisons ==
    {[text |-> Grammar.OneEqOne, result |-> TRUE],
     [text |-> Grammar.OneNeTwo, result |-> TRUE],
     [text |-> Grammar.OneLtTwo, result |-> TRUE],
     [text |-> Grammar.TwoLeTwo, result |-> TRUE],
     [text |-> Grammar.ThreeGtTwo, result |-> TRUE],
     [text |-> Grammar.ThreeGeFour, result |-> FALSE]}

\* C22: append of a line that compares two numbers with one of ==, !=, <,
\* <=, >, >= returns the result of the comparison (True is 1, False is 0).
C22_ComparisonYields ==
    [][\A c \in C22_Comparisons :
          (ret'.call = "append" /\ ret'.text = c.text)
          => (ret'.ok /\ ret'.v = IntV(IF c.result THEN 1 ELSE 0))]_vars_all

\* C23: append of a line with a chain of conversions or comparisons
\* (`1 m to cm to mm`, `1<2<3`) raises an exception.
C23_ChainFails ==
    [][(ret'.call = "append" /\ ret'.text \in {Grammar.ChainTo, Grammar.ChainLt})
       => ~ret'.ok]_vars_all

\* C24, as the code has it: in every call of append, each while loop of
\* parse (factorial, money, `to $`, unit scan) ends, because each turn takes
\* characters the pattern needs out of the text and puts none in: one `!`,
\* one `$`, one `$`, and the letters of the unit.  The text the loop ends
\* with has no match left.
C24_LoopsTerminate ==
    [][ret'.call = "append" =>
         \A n \in {9, 11, 12, 15} :
            LET Needed == CASE n = 9 -> {"!"}
                            [] n \in {11, 12} -> {"$"}
                            [] n = 15 -> Letter \cup {"_", "Ω", "μ", "°"}
                Count(text) == Cardinality({j \in 1..Len(text) : text[j] \in Needed})
            IN \A texts \in {WhileLoop(n, ret'.text, vars)} :
                  /\ \A j \in 1..(Len(texts) - 1) : Count(texts[j + 1]) < Count(texts[j])
                  /\ ~Search(LoopPattern(n), texts[Len(texts)], 1).ok]_vars_all

\* C24, as the claim states it: each turn of each while loop strictly
\* reduces the number of matches of the loop's pattern in the text.
C24_MatchesShrink ==
    [][ret'.call = "append" =>
         \A n \in {9, 11, 12, 15} :
            \A texts \in {WhileLoop(n, ret'.text, vars)} :
               \A j \in 1..(Len(texts) - 1) :
                  FindAllFrom(LoopPattern(n), texts[j + 1], 1)
                  < FindAllFrom(LoopPattern(n), texts[j], 1)]_vars_all

\* the unit scan has taken three turns on `2 m 3 m kg`
C24_Witness ==
    /\ ret.call = "append" /\ ret.text = Rewriting.ThreeUnits
    /\ input = <<>>
    /\ Len(WhileLoop(15, ret.text, EmptyDict)) = 4

\* the lines L + ' #' + C of VariableLines, each with its line L
C25_Commented ==
    {[commented |-> Variable.AssignA8Commented, line |-> Variable.AssignA8],
     [commented |-> Variable.APlusOneCommented, line |-> Variable.APlusOne],
     [commented |-> Variable.FiveParenCommented, line |-> Variable.FiveParen],
     [commented |-> Variable.OnlyComment, line |-> <<>>]}

\* C25: append of a line L + ' #' + C, L without `#`, returns or raises
\* what parse of L returns or raises in the same state, and leaves
\* parser.vars as parse of L and the binding of ans leave it: nothing of C
\* is rewritten or evaluated.
C25_CommentIgnored ==
    [][\A c \in C25_Commented :
          (ret'.call = "append" /\ ret'.text = c.commented)
          => \A out \in {parse(c.line, vars)} :
                /\ parse(c.commented, vars) = out
                /\ ret'.ok = out.ok /\ ret'.v = out.v /\ ret'.err = out.err
                /\ vars' = IF out.ok /\ aliased THEN Put(out.env, "ans", out.v)
                            ELSE out.env]_vars_all

\* `a+1 #a = 9 m` after `a=8 #b = 5!` has returned 9, and neither b nor the
\* a of the comment is bound
C25_Witness ==
    /\ ret.call = "append" /\ ret.text = Variable.APlusOneCommented
    /\ input = <<Variable.AssignA8Commented, Variable.APlusOneCommented>>
    /\ ret.ok /\ ret.v = IntV(9)
    /\ DOMAIN vars = {"a", "ans"} /\ vars["a"] = IntV(8)

\* lines with `%`, each with the text parse has made of it after line 197
C26_Rewritten ==
    {[text |-> Notation.Modulo, rewritten |-> <<"8", " ", "%", " ", "3">>],
     [text |-> Notation.PercentSum, rewritten |-> <<"5", "0", "p", "c", "t", "+", "8", " ", "%", "3">>],
     [text |-> Notation.ModuloOf, rewritten |-> <<"(", "(", "7", " ", "%", " ", "2", " ", ")", "/", "1", "0", "0", ")", "*", "4">>],
     [text |-> Notation.PercentOfPercent, rewritten |-> <<"(", "(", "2", "0", ")", "/", "1", "0", "0", ")", "*", "5", "0", "p", "c", "t">>]}

\* C26: in append, the `% of` rewrite comes before the percent rewrite
\* (`7 % 2 % of 4` is 7 % 2 percent of 4, 0.04, and `20% of 50%` becomes
\* ((20)/100)*50pct); a `%` with a digit after it, spaces between them or
\* not, stays (`8 % 3` returns 2); every other `%` becomes pct, so that
\* each `%` left in the text has a digit after it.
C26_PercentRewrite ==
    [][ret'.call = "append" =>
         \A line \in {LineTree[ret'.text]} :
            /\ \A c \in C26_Rewritten :
                  ret'.text = c.text => line.rewritten = c.rewritten
            /\ ret'.text = Notation.Modulo => (ret'.ok /\ ret'.v = IntV(2))
            /\ ret'.text = Notation.ModuloOf => (ret'.ok /\ ret'.v = FloatV(4, 2))
            /\ \A j \in 1..Len(line.rewritten) :
                  line.rewritten[j] = "%"
                  => \E d \in (j + 1)..Len(line.rewritten) :
                        /\ line.rewritten[d] \in Digit
                        /\ \A sp \in (j + 1)..(d - 1) : line.rewritten[sp] \in Space]_vars_all

\* `7 % 2 % of 4` has returned 0.04 after `8 % 3` returned 2
C26_Witness ==
    /\ ret.call = "append" /\ ret.text = Notation.ModuloOf
    /\ ret.ok /\ ret.v = FloatV(4, 2)
    /\ input = <<Notation.Modulo, Notation.ModuloOf>>
    /\ output = <<IntV(2), FloatV(4, 2)>>

\* C27: the tree ast.parse makes of the text of an appended line, `^`
\* rewritten to `**` and `@` to ans, has no binary operator without an entry
\* in the operations table.
C27_BinaryOperatorsKnown ==
    [][ret'.call = "append" =>
         LET RECURSIVE BinOps(_)
             BinOps(node) ==
                 (IF node.k = "BinOp" THEN {node.op} ELSE {})
                 \cup UNION {BinOps(node.kids[j]) : j \in DOMAIN node.kids}
             TreeOf(line, substituted) ==
                 IF substituted = line.substituted THEN line.tree
                 ELSE ast_parse(Rewrites(11, 17, substituted, vars))
         IN \A line \in {LineTree[ret'.text]} :
               \A tree \in {TreeOf(line, Rewrites(10, 10, line.rewritten, vars))} :
                  tree.ok => BinOps(tree.node) \subseteq OperationNames]_vars_all

\* `@^2` has returned 64 after `2^3` returned 8
C27_Witness ==
    /\ ret.call = "append" /\ ret.text = Variable.AnsPower
    /\ ret.ok /\ ret.v = IntV(64)
    /\ input = <<Variable.Power, Variable.AnsPower>>
    /\ output = <<IntV(8), IntV(64)>>

\* C28: parse of a line with no assignment in it, whether it returns or
\* raises, leaves parser.vars as it was, so that after append of the line
\* parser.vars differs at most in ans; and no call but clear takes a name
\* out of parser.vars.
C28_OnlyAssignBinds ==
    [][/\ (ret'.call = "append" /\ FindFrom(StripComment(ret'.text), "=", 1) = 0)
            => \A out \in {parse(ret'.text, vars)} :
                  /\ out.env = vars
                  /\ vars' = IF out.ok /\ aliased THEN Put(vars, "ans", out.v) ELSE vars
       /\ ret'.call # "clear" => DOMAIN vars \subseteq DOMAIN vars']_vars_all

\* `a+1` has returned 4 after `a = b = 3`, and a and b are still bound to 3
C28_Witness ==
    /\ ret.call = "append" /\ ret.text = Variable.APlusOne
    /\ ret.ok /\ ret.v = IntV(4)
    /\ input = <<Variable.AssignAB, Variable.APlusOne>>
    /\ DOMAIN vars = {"a", "b", "ans"}
    /\ vars["a"] = IntV(3) /\ vars["b"] = IntV(3) /\ vars["ans"] = IntV(4)

\* C29: each turn of the loop of processNotepad adds the line to the text
\* read and exactly one row to the end of the rows, and leaves the rows
\* before it alone, so that there is one row for each line in the order of
\* the lines.  The row is the value of the line (0 for a number below
\* 1e-15), the empty row for a line with no value, and an error row exactly
\* when append or the zero test raised, whatever the rows before it are.
C29_OneRowPerLine ==
    [][(ret'.call = "processNotepad" /\ document' # <<>>)
       => /\ document' = Append(document, ret'.text)
          /\ Len(all_output') = Len(document')
          /\ SubSeq(all_output', 1, Len(all_output)) = all_output
          /\ \A out \in {parse(ret'.text, vars)} :
                \A row \in {all_output'[Len(all_output')]} :
                   /\ ~out.ok => row = [ok |-> FALSE, v |-> Empty, err |-> out.err]
                   /\ (out.ok /\ out.v = Empty) => row = [ok |-> TRUE, v |-> Empty, err |-> ""]
                   /\ (out.ok /\ out.v.t = "num")
                        => row = [ok |-> TRUE, v |-> ZeroSnap(out.v), err |-> ""]
                   /\ row.ok = (out.ok /\ (out.v = Empty \/ out.v.t = "num"))]_vars_all

\* the rows of `8/0` and `5`: an error row, then the row of 5
C29_Witness ==
    /\ ret.call = "processNotepad"
    /\ document = <<Document.DivZero, Document.Five>>
    /\ all_output = <<[ok |-> FALSE, v |-> Empty, err |-> "ZeroDivisionError"],
                      [ok |-> TRUE, v |-> IntV(5), err |-> ""]>>
    /\ input = <<Document.Five>>

\* C30: whatever the notepad held when processNotepad was called, the rows,
\* parser.vars and the history after the lines read are the ones the loop
\* makes of these lines from a new, empty notepad; so two calls with the
\* same text end with the same rows and the same parser.vars.
C30_Idempotent ==
    ret.call = "processNotepad"
    => \A end \in {Run([input |-> <<>>, output |-> <<>>, vars |-> EmptyDict,
                         _vars |-> EmptyDict, aliased |-> FALSE,
                         ret |-> NoCall("processNotepad"),
                         document |-> <<>>, all_output |-> <<>>], document)} :
          /\ all_output = end.all_output
          /\ vars = end.vars
          /\ input = end.input
          /\ output = end.output

\* `@*2` read as the first line by a call made after a call that read `5`:
\* ans is not bound, as in a new notepad
C30_Witness ==
    /\ ret.call = "processNotepad"
    /\ document = <<Document.AtTimesTwo>>
    /\ Len(all_output) = 1 /\ ~all_output[1].ok
    /\ vars = EmptyDict
    /\ _vars # EmptyDict /\ _vars["ans"] = IntV(5)

====
